---- MODULE Spec2Model ----
(***************************************************************************)
(* A model of taskmaster's task engine: the dependency graph               *)
(* (task_dependencies.rs), the project's dependency operations             *)
(* (project.rs), the worker pool (worker_pool.rs) and the synchronous and  *)
(* asynchronous executors (task_executor.rs, async_executor.rs).           *)
(*                                                                         *)
(* Each component has its own specification over the shared variables:     *)
(*   SpecGraph    a DependencyGraph under add/remove/get_execution_order   *)
(*   SpecProject  a Project of four tasks under its dependency operations  *)
(*   SpecPool     a WorkerPool: execute, the worker threads, drop          *)
(*   SpecExec     a TaskExecutor or an AsyncTaskExecutor                   *)
(* A component's variables stay at their initial value under the other     *)
(* components' specifications.                                             *)
(***************************************************************************)
EXTENDS Integers, Sequences, FiniteSets, Bags, TLC

VARIABLES
    graph,       \* DependencyGraph: [dependencies, dependents], each a HashMap<u32, HashSet<u32>>
    nCalls,      \* number of add_dependency/remove_dependency calls made
    lastCall,    \* the add_dependency/remove_dependency call just made: [op, task, dep, ok]
    lastOrder,   \* the get_execution_order call just made: [called, tasks, res]
    lastMet,     \* the are_dependencies_met call just made: [called, task, tasks, res]
    project,     \* Project.tasks: a sequence of [id, dependencies]
    nProjCalls,  \* number of add_task_dependency/remove_task_dependency calls made
    projRes,     \* the Project call just made: [op, task, dep, res, order]
    queue,       \* WorkerPool: the messages sent on `sender` and not yet received
    rxLock,      \* holder of the Mutex around `receiver`: a worker, or 0
    wk,          \* the worker threads: [pc, job, ret, wake] each
    results,     \* the JobResults sent on `results_sender` and not yet received
    taken,       \* the JobResults received from `results_receiver`, in order
    submitted,   \* the jobs given to WorkerPool::execute: how many of each [id, handler]
    poolPc,      \* the pool: "live", or the position of Drop::drop
    termSent,    \* Terminate messages sent by Drop::drop
    joined,      \* worker threads joined by Drop::drop
    mode,        \* the executor built: "sync" (TaskExecutor), "async" (AsyncTaskExecutor), "none"
    running,     \* running_tasks: HashMap<u32, Instant>, task ID -> seconds since its start instant
    execCalls,   \* execute_task calls made so far, per task ID
    calls,       \* bag of the IDs of the execute_task calls past their insert and not yet dispatched
    bodies,      \* bag of the spawned units of work of the async executor: [id, wake, pc]
    events,      \* the TaskEvents sent on event_tx and not yet received
    delivered,   \* the TaskEvents returned by next_event, in order
    execRes,     \* what the executor call made by the latest step returned: [op, id, res, ids]
    hubPc,       \* NotificationSystem: "idle", in "start", in "deadlines" (start_with_deadlines), "stopped"
    hubQueue,    \* the TaskEvents sent on the channel of the hub's event_rx and not yet received
    hubOpen,     \* a Sender of that channel still exists
    hubSent,     \* what has been sent to the hub for each task: 0 nothing, 1 Started, 2 Completed too
    tracked,     \* the task IDs of tasks_with_deadlines, the argument of start_with_deadlines
    deadline_tasks, \* the loop's copy of that map: task ID -> seconds left to the deadline, 0 once reached
    sleepLeft,   \* seconds left of the sleep of the current select!
    cbLog,       \* for each registered callback, the events it has been called with, in order
    callbacks,   \* NotificationSystem.callbacks: the registered callbacks in the iteration order of the HashMap
    invoked,     \* the callbacks called with the latest event delivered, in the order of the calls
    sched,       \* PeriodicTaskScheduler.tasks: a sequence of PeriodicTask records
    clock,       \* SystemTime::now(), in seconds
    gen,         \* the generate_task or generate_due_tasks call under way or just made
    cache,       \* TaskCache: [projects, tasks], each a map from a key to [val, age]
    cacheLock,   \* holder of the Mutex of GlobalCache: a thread, or 0
    cacheRes,    \* the cache call just made: [op, key, before, res]
    runLock,     \* holder of the Mutex around running_tasks: a worker, the caller's thread, or 0
    caller,      \* the TaskExecutor method the caller's thread is in, under the lock: [op, id]
    coll,        \* the collect_results call under way or just made: [pc, prior, before, batch]
    reg,         \* the names of the hub's callbacks, in the order of `callbacks`, and the register/unregister call just made
    hreg         \* the TaskHandlerRegistry: [handlers, op, task, ran, res]

graphVars == <<graph, nCalls, lastCall, lastOrder, lastMet>>
projVars == <<project, nProjCalls, projRes>>
poolVars == <<queue, rxLock, wk, results, taken, submitted, poolPc, termSent, joined>>

execState == <<mode, running, execCalls, calls, bodies, events, delivered>>

execVars == <<execState, execRes>>

hubVars == <<hubPc, hubQueue, hubOpen, hubSent, tracked, deadline_tasks,
             sleepLeft, cbLog, callbacks, invoked>>

perVars == <<sched, clock, gen>>
cacheVars == <<cache, cacheLock, cacheRes>>

lockVars == <<runLock, caller>>

collVars == <<coll>>

\* what the actions of one component leave alone of the others
regVars == <<reg>>
handVars == <<hreg>>

\* what the actions of one component leave alone of the others
notPer == <<cacheVars, lockVars, collVars, regVars, handVars>>
notCache == <<perVars, lockVars, collVars, regVars, handVars>>
notLock == <<perVars, cacheVars, collVars, regVars, handVars>>
notColl == <<perVars, cacheVars, lockVars, regVars, handVars>>
notReg == <<perVars, cacheVars, lockVars, collVars, handVars>>
notHand == <<perVars, cacheVars, lockVars, collVars, regVars>>

auxVars == <<perVars, cacheVars, lockVars, collVars, regVars, handVars>>

vars == <<graphVars, projVars, poolVars, execVars, hubVars, auxVars>>

(***************************************************************************)
(* Bounds of the model.                                                    *)
(***************************************************************************)
\* task IDs of the dependency graph are 1..MaxId
MaxId == 3

IDs == 1..MaxId

\* add_dependency/remove_dependency calls made on one graph
MaxCalls == 4

\* length of the task list given to are_dependencies_met
MaxTasks == 2

\* handlers in one TaskHandlerRegistry
MaxHandlers == 3

\* periodic tasks in one scheduler
MaxPeriodic == 3

\* generations compared for their task IDs
MaxGenerated == 3

\* generations of one periodic task
MaxOccurrences == 2

\* steps of the clock
MaxClockSteps == 2

\* ttl_seconds of the cache
TtlSecs == 2

\* add_task_dependency/remove_task_dependency calls made on one project
MaxProjCalls == 4

\* the tasks 1..4 of test_task_dependencies
NumTasks == 4

\* worker threads of a pool (WorkerPool::new(size))
NumWorkers == 2

\* jobs given to one pool
MaxJobs == 2

\* task IDs of jobs are 1..MaxTaskId
MaxTaskId == 2

TaskIDs == 1..MaxTaskId

\* timeout_seconds of the executor
TimeoutSecs == 1

\* channel_capacity of the asynchronous executor
ChannelCapacity == 2

\* the callbacks registered on the NotificationSystem are 1..NumCallbacks
NumCallbacks == 2

Callbacks == 1..NumCallbacks

\* the deadlines given to start_with_deadlines lie 0..MaxDeadline seconds
\* after the call
MaxDeadline == 1

\* the events sent to the hub in one behaviour
MaxHubEvents == 2

\* the period of the deadline check: time::sleep(Duration::from_secs(1))
TickSecs == 1

\* the simulated work: thread::sleep / time::sleep of 2 seconds
WorkSecs == 2

ProjIDs == 1..NumTasks

(***************************************************************************)
(* Helpers: HashMap<u32, HashSet<u32>> as a function on the keys present.  *)
(***************************************************************************)
EmptyMap == [k \in {} |-> {}]

\* map.get(&k).cloned().unwrap_or_default()
GetOrEmpty(m, k) == IF k \in DOMAIN m THEN m[k] ELSE {}

\* map.entry(k).or_insert_with(HashSet::new).insert(v)
EntryInsert(m, k, v) ==
    [x \in (DOMAIN m) \cup {k} |-> IF x = k THEN GetOrEmpty(m, k) \cup {v} ELSE m[x]]

\* if let Some(s) = map.get_mut(&k) { s.remove(&v); }
GetMutRemove(m, k, v) ==
    [x \in DOMAIN m |-> IF x = k THEN m[x] \ {v} ELSE m[x]]

\* the permutations of a finite set, as sequences: the orders in which a
\* HashSet can be iterated
RECURSIVE Perms(_)
Perms(S) ==
    IF S = {} THEN {<<>>}
    ELSE UNION { { <<x>> \o p : p \in Perms(S \ {x}) } : x \in S }

\* one iteration order of a set (ascending), used only where the outcome
\* does not depend on the order
RECURSIVE AscSeq(_)
AscSeq(S) ==
    IF S = {} THEN <<>>
    ELSE LET m == CHOOSE x \in S : \A y \in S : x <= y
         IN  <<m>> \o AscSeq(S \ {m})

SeqToSet(s) == { s[i] : i \in 1..Len(s) }

(***************************************************************************)
(* DependencyGraph (task_dependencies.rs)                                  *)
(***************************************************************************)
\* DependencyGraph::new
NewGraph == [dependencies |-> EmptyMap, dependents |-> EmptyMap]

get_dependents(g, task_id) == GetOrEmpty(g.dependents, task_id)

get_dependencies(g, task_id) == GetOrEmpty(g.dependencies, task_id)

\* The loop of would_create_cycle: a breadth-first search from the new
\* dependency that follows the dependents index. Whether task_id is
\* reached does not depend on the order in which a HashSet is pushed.
RECURSIVE cycle_search(_, _, _, _)
cycle_search(g, task_id, bfs_queue, visited) ==
    IF bfs_queue = <<>> THEN FALSE
    ELSE LET current == Head(bfs_queue)
             rest == Tail(bfs_queue)
         IN  IF current = task_id THEN TRUE
             ELSE IF current \notin visited
                  THEN cycle_search(g, task_id,
                                    rest \o AscSeq(get_dependents(g, current)),
                                    visited \cup {current})
                  ELSE cycle_search(g, task_id, rest, visited)

would_create_cycle(g, task_id, new_dependency_id) ==
    cycle_search(g, task_id, <<new_dependency_id>>, {})

\* the two writes of add_dependency
record_edge(g, task_id, dependency_id) ==
    [dependencies |-> EntryInsert(g.dependencies, task_id, dependency_id),
     dependents   |-> EntryInsert(g.dependents, dependency_id, task_id)]

\* a variant that writes the forward index before the checks
add_dependency_write_first(g, task_id, dependency_id) ==
    IF task_id = dependency_id \/ would_create_cycle(g, task_id, dependency_id)
    THEN [ok |-> FALSE,
          g  |-> [g EXCEPT !.dependencies =
                     EntryInsert(g.dependencies, task_id, dependency_id)]]
    ELSE [ok |-> TRUE, g |-> record_edge(g, task_id, dependency_id)]

\* add_dependency: [ok, g], Err(InvalidOperation) as ok = FALSE
add_dependency(g, task_id, dependency_id) ==
    IF task_id = dependency_id
    THEN [ok |-> FALSE, g |-> g]
    ELSE IF would_create_cycle(g, task_id, dependency_id)
         THEN [ok |-> FALSE, g |-> g]
         ELSE [ok |-> TRUE, g |-> record_edge(g, task_id, dependency_id)]

\* a variant that removes the edge from the forward index only
remove_dependency_forward_only(g, task_id, dependency_id) ==
    [g EXCEPT !.dependencies = GetMutRemove(g.dependencies, task_id, dependency_id)]

remove_dependency(g, task_id, dependency_id) ==
    [dependencies |-> GetMutRemove(g.dependencies, task_id, dependency_id),
     dependents   |-> GetMutRemove(g.dependents, dependency_id, task_id)]

\* get_execution_order: the state of the depth-first search
NewSearch == [temp_marks |-> {}, perm_marks |-> {}, result |-> <<>>, err |-> 0]

\* Err(InvalidOperation("Circular dependency detected involving task n"))
SearchErr(n) == [temp_marks |-> {}, perm_marks |-> {}, result |-> <<>>, err |-> n]

\* visit: the set of search states it can end in, one per order in which
\* the HashSets of dependencies can be iterated
RECURSIVE visit(_, _, _, _), visit_each(_, _, _, _)
\* a variant that emits the node before its dependencies are visited
visit_emit_first(node, g, task_ids, st) ==
    IF node \in st.temp_marks THEN {SearchErr(node)}
    ELSE IF node \notin st.perm_marks
         THEN LET marked == [st EXCEPT !.temp_marks = @ \cup {node},
                                       !.result = IF node \in task_ids
                                                  THEN Append(@, node) ELSE @]
                  after  == visit_each(get_dependencies(g, node), g, task_ids, marked)
              IN  { IF s.err # 0 THEN s
                    ELSE [s EXCEPT !.temp_marks = @ \ {node},
                                   !.perm_marks = @ \cup {node}]
                    : s \in after }
         ELSE {st}

\* a variant that emits every node it finishes, in the input list or not
visit_emit_all(node, g, task_ids, st) ==
    IF node \in st.temp_marks THEN {SearchErr(node)}
    ELSE IF node \notin st.perm_marks
         THEN LET marked == [st EXCEPT !.temp_marks = @ \cup {node}]
                  after  == visit_each(get_dependencies(g, node), g, task_ids, marked)
              IN  { IF s.err # 0 THEN s
                    ELSE [s EXCEPT !.temp_marks = @ \ {node},
                                   !.perm_marks = @ \cup {node},
                                   !.result = Append(@, node)]
                    : s \in after }
         ELSE {st}

visit(node, g, task_ids, st) ==
    IF node \in st.temp_marks THEN {SearchErr(node)}
    ELSE IF node \notin st.perm_marks
         THEN LET marked == [st EXCEPT !.temp_marks = @ \cup {node}]
                  after  == visit_each(get_dependencies(g, node), g, task_ids, marked)
              IN  { IF s.err # 0 THEN s
                    ELSE [s EXCEPT !.temp_marks = @ \ {node},
                                   !.perm_marks = @ \cup {node},
                                   !.result = IF node \in task_ids
                                              THEN Append(@, node) ELSE @]
                    : s \in after }
         ELSE {st}

\* for &dep in &graph.get_dependencies(node) { visit(dep, ...)?; }
visit_each(deps, g, task_ids, st) ==
    IF deps = {} \/ st.err # 0 THEN {st}
    ELSE UNION { UNION { visit_each(deps \ {d}, g, task_ids, s)
                         : s \in visit(d, g, task_ids, st) }
                 : d \in deps }

\* for task in tasks { if !perm_marks.contains(&task.id) { visit(task.id, ...)?; } }
RECURSIVE visit_tasks(_, _, _, _, _)
visit_tasks(tasks, i, g, task_ids, st) ==
    IF i > Len(tasks) \/ st.err # 0 THEN {st}
    ELSE IF tasks[i] \in st.perm_marks
         THEN visit_tasks(tasks, i + 1, g, task_ids, st)
         ELSE UNION { visit_tasks(tasks, i + 1, g, task_ids, s)
                      : s \in visit(tasks[i], g, task_ids, st) }

\* get_execution_order(tasks), tasks given by their IDs: the set of results
\* [ok, order, node] it can return
get_execution_order(g, tasks) ==
    { [ok |-> s.err = 0, order |-> s.result, node |-> s.err]
      : s \in visit_tasks(tasks, 1, g, SeqToSet(tasks), NewSearch) }

(***************************************************************************)
(* Graph-level definitions used by the properties.                         *)
(***************************************************************************)
\* the edges (task, dep) recorded in the forward index
Edges(g) == { <<t, d>> \in IDs \X IDs : d \in get_dependencies(g, t) }

\* the nodes reachable from S along dependency edges, S included
RECURSIVE Closure(_, _)
Closure(g, S) ==
    LET next == S \cup UNION { get_dependencies(g, n) : n \in S }
    IN  IF next = S THEN S ELSE Closure(g, next)

\* t depends on d directly or transitively
DependsOn(g, t, d) == d \in Closure(g, get_dependencies(g, t))

Acyclic(g) == \A t \in IDs : ~DependsOn(g, t, t)

\* the task lists given to get_execution_order: distinct IDs in any order
TaskLists == UNION { Perms(S) : S \in SUBSET IDs }

NoOrder == [called |-> FALSE, tasks |-> <<>>,
            res |-> [ok |-> TRUE, order |-> <<>>, node |-> 0]]

NoCall == [op |-> "none", task |-> 0, dep |-> 0, ok |-> TRUE]

\* TaskStatus
Statuses == {"ToDo", "InProgress", "Done"}

\* the task lists given to are_dependencies_met: up to MaxTasks tasks
\* [id, status] with distinct IDs, listed by ascending ID (the function
\* turns the list into a map keyed by ID before it reads it)
StatusLists ==
    UNION { { [i \in 1..Len(AscSeq(S)) |-> [id |-> AscSeq(S)[i], status |-> st[i]]] :
                st \in [1..Cardinality(S) -> Statuses] } :
            S \in { T \in SUBSET IDs : Cardinality(T) <= MaxTasks } }

\* tasks.iter().map(|t| (t.id, t)).collect(): for each ID the last task of
\* the list with that ID
task_map(tasks) ==
    [id \in { tasks[i].id : i \in 1..Len(tasks) } |->
        tasks[CHOOSE i \in 1..Len(tasks) :
                /\ tasks[i].id = id
                /\ \A j \in (i + 1)..Len(tasks) : tasks[j].id # id]]

\* a variant that takes a dependency missing from the list as met
are_dependencies_met_missing_ok(g, task_id, tasks) ==
    \A dep_id \in get_dependencies(g, task_id) :
        dep_id \in DOMAIN task_map(tasks) => task_map(tasks)[dep_id].status = "Done"

\* DependencyGraph::are_dependencies_met: the loop returns false at the
\* first dependency that is missing or not Done, in whatever order the
\* HashSet is iterated
are_dependencies_met(g, task_id, tasks) ==
    LET dependencies == get_dependencies(g, task_id)
    IN  IF dependencies = {} THEN TRUE
        ELSE \A dep_id \in dependencies :
                /\ dep_id \in DOMAIN task_map(tasks)
                /\ task_map(tasks)[dep_id].status = "Done"

NoMet == [called |-> FALSE, task |-> 0, tasks |-> <<>>, res |-> TRUE]

\* no generate_task or generate_due_tasks call is under way or just made
NoGen == [op |-> "none", pc |-> 0, before |-> <<>>, nows |-> <<>>, idx |-> <<>>,
          res |-> "none", tasks |-> <<>>]

\* TaskCache::new: both maps empty
NewCache == [projects |-> EmptyMap, tasks |-> EmptyMap]

\* an absent cache entry
NoEntry == [present |-> FALSE, val |-> 0, age |-> 0]

\* no cache call has just been made
NoCacheRes == [op |-> "none", key |-> 0, before |-> NoEntry, some |-> FALSE, val |-> 0,
               swept |-> [projects |-> <<>>, tasks |-> <<>>]]

\* no callback has a name, no closure has been made for a registration, no
\* register_callback or unregister_callback call has been made
NoReg == [names |-> <<>>, made |-> 0, op |-> "none", name |-> "none", f |-> 0,
          res |-> FALSE, before |-> {}]

\* no Task
NoHandled == [id |-> 0, words |-> {}, priority |-> "none"]

\* TaskHandlerRegistry::new(): no handler, and no call made
NewRegistry == [handlers |-> <<>>, op |-> "none", task |-> NoHandled, ran |-> <<>>,
                res |-> "none"]

\* no collect_results call is under way or has been made
NoCollect == [pc |-> "none", prior |-> <<>>, before |-> <<>>, batch |-> <<>>]

\* the caller's thread is in no method of the executor
NoCaller == [op |-> "none", id |-> 0]

\* PeriodicTaskScheduler::new and GlobalCache::new, the clock at 0, the
\* lock of the running index free
NoAux ==
    /\ sched = <<>>
    /\ clock = 0
    /\ gen = NoGen
    /\ cache = NewCache
    /\ cacheLock = 0
    /\ cacheRes = NoCacheRes
    /\ runLock = 0
    /\ caller = NoCaller
    /\ coll = NoCollect
    /\ reg = NoReg
    /\ hreg = NewRegistry

\* Project::new: no task
ProjectInit == <<>>

NoProjCall == [op |-> "none", task |-> 0, dep |-> 0, res |-> "Ok", order |-> <<>>]

(***************************************************************************)
(* WorkerPool::new(NumWorkers): the channels empty, every worker thread at *)
(* the top of its loop.                                                    *)
(***************************************************************************)
Workers == 1..NumWorkers

NoJob == [type |-> "none", id |-> 0, handler |-> "none"]

\* Message::Terminate
Terminate == [type |-> "Terminate", id |-> 0, handler |-> "none"]

\* Message::NewTask(TaskJob { id, handler, .. }); the handler is given by what
\* it does: "Ok" and "Err" return at once with that result, "Exec" is the
\* closure of TaskExecutor::execute_task
NewTaskMsg(id, handler) == [type |-> "NewTask", id |-> id, handler |-> handler]

\* the jobs told apart: a task ID and what the handler does
JobKinds == TaskIDs \X {"Ok", "Err", "Exec"}

RECURSIVE SumOver(_, _)
SumOver(f, S) ==
    IF S = {} THEN 0
    ELSE LET x == CHOOSE y \in S : TRUE IN f[x] + SumOver(f, S \ {x})

\* the number of jobs given to execute
NumJobs(f) == SumOver(f, DOMAIN f)

PoolInit ==
    /\ queue = <<>>
    /\ rxLock = 0
    /\ wk = [w \in Workers |-> [pc |-> "idle", job |-> NoJob, ret |-> "none", wake |-> 0]]
    /\ results = <<>>
    /\ taken = <<>>
    /\ submitted = [j \in JobKinds |-> 0]
    /\ poolPc = "live"
    /\ termSent = 0
    /\ joined = 0

\* no NotificationSystem has been built
NoHub ==
    /\ hubPc = "idle"
    /\ hubQueue = <<>>
    /\ hubOpen = FALSE
    /\ hubSent = [id \in TaskIDs |-> 0]
    /\ tracked = {}
    /\ deadline_tasks = EmptyMap
    /\ sleepLeft = 0
    /\ cbLog = [c \in Callbacks |-> <<>>]
    /\ callbacks = <<>>
    /\ invoked = <<>>

\* no executor call has just returned
NoExecRes == [op |-> "none", id |-> 0, res |-> "none", ids |-> {}]

\* the state of an executor just built (TaskExecutor::new,
\* AsyncTaskExecutor::new): no running task, no event
ExecInit ==
    /\ running = EmptyMap
    /\ execCalls = [id \in TaskIDs |-> 0]
    /\ calls = EmptyBag
    /\ bodies = EmptyBag
    /\ events = <<>>
    /\ delivered = <<>>
    /\ execRes = NoExecRes

NoExecutor == mode = "none" /\ ExecInit

(***************************************************************************)
(* SpecGraph: one DependencyGraph, starting empty, under at most MaxCalls  *)
(* add_dependency/remove_dependency calls and any number of               *)
(* get_execution_order calls. The outcome of a call is recorded until the  *)
(* caller takes it (TakeResult); the next call is made after that.         *)
(***************************************************************************)
Init ==
    /\ graph = NewGraph
    /\ nCalls = 0
    /\ lastCall = NoCall
    /\ lastOrder = NoOrder
    /\ lastMet = NoMet
    /\ NoAux
    /\ project = ProjectInit
    /\ nProjCalls = 0
    /\ projRes = NoProjCall
    /\ PoolInit
    /\ NoExecutor
    /\ NoHub

Idle == lastCall = NoCall /\ lastOrder = NoOrder /\ lastMet = NoMet

AddDependency(t, d) ==
    LET r == add_dependency(graph, t, d)
    IN  /\ Idle
        /\ nCalls < MaxCalls
        /\ nCalls' = nCalls + 1
        /\ graph' = r.g
        /\ lastCall' = [op |-> "add", task |-> t, dep |-> d, ok |-> r.ok]
        /\ UNCHANGED <<lastOrder, lastMet, projVars, poolVars, execVars, hubVars, auxVars>>

RemoveDependency(t, d) ==
    /\ Idle
    /\ nCalls < MaxCalls
    /\ nCalls' = nCalls + 1
    /\ graph' = remove_dependency(graph, t, d)
    /\ lastCall' = [op |-> "remove", task |-> t, dep |-> d, ok |-> TRUE]
    /\ UNCHANGED <<lastOrder, lastMet, projVars, poolVars, execVars, hubVars, auxVars>>

GetExecutionOrder(tasks) ==
    /\ Idle
    /\ \E r \in get_execution_order(graph, tasks) :
          lastOrder' = [called |-> TRUE, tasks |-> tasks, res |-> r]
    /\ UNCHANGED <<graph, nCalls, lastCall, lastMet, projVars, poolVars, execVars, hubVars, auxVars>>

\* a second get_execution_order call with the task list of the one just made
GetExecutionOrderAgain ==
    /\ lastOrder.called
    /\ \E r \in get_execution_order(graph, lastOrder.tasks) :
          lastOrder' = [lastOrder EXCEPT !.res = r]
    /\ UNCHANGED <<graph, nCalls, lastCall, lastMet, projVars, poolVars, execVars, hubVars, auxVars>>

TakeResult ==
    /\ ~Idle
    /\ lastCall' = NoCall
    /\ lastOrder' = NoOrder
    /\ lastMet' = NoMet
    /\ UNCHANGED <<graph, nCalls, projVars, poolVars, execVars, hubVars, auxVars>>

NextGraph ==
    \/ \E t \in IDs, d \in IDs : AddDependency(t, d)
    \/ \E t \in IDs, d \in IDs : RemoveDependency(t, d)
    \/ \E tasks \in TaskLists : GetExecutionOrder(tasks)
    \/ GetExecutionOrderAgain
    \/ TakeResult

SpecGraph == Init /\ [][NextGraph]_vars

\* a call of are_dependencies_met, counted with the calls made on the graph
AreDependenciesMet ==
    /\ Idle
    /\ nCalls < MaxCalls
    /\ nCalls' = nCalls + 1
    /\ \E t \in IDs, tasks \in StatusLists :
          lastMet' = [called |-> TRUE, task |-> t, tasks |-> tasks,
                      res |-> are_dependencies_met(graph, t, tasks)]
    /\ UNCHANGED <<graph, lastCall, lastOrder, projVars, poolVars, execVars, hubVars, auxVars>>

\* SpecMet: a graph built by add_dependency and remove_dependency calls and
\* asked are_dependencies_met
NextMet ==
    \/ \E t \in IDs, d \in IDs : AddDependency(t, d)
    \/ \E t \in IDs, d \in IDs : RemoveDependency(t, d)
    \/ AreDependenciesMet
    \/ TakeResult

SpecMet == Init /\ [][NextMet]_vars

(***************************************************************************)
(* Properties of the dependency graph.                                     *)
(***************************************************************************)
\* C1: after any sequence of add_dependency and remove_dependency calls on
\* an empty graph the recorded edge set is acyclic: no task depends on
\* itself directly or transitively.
C1_GraphAcyclic == Acyclic(graph)

\* C3: whenever add_dependency returns an error, the forward and the
\* reverse index are exactly as they were before the call.
C3_FailedAddLeavesIndices ==
    [][(lastCall'.op = "add" /\ ~lastCall'.ok) => graph' = graph]_vars

\* an add_dependency call of two different tasks was rejected by the cycle
\* check on a graph that holds edges
C3_Witness ==
    /\ lastCall.op = "add"
    /\ ~lastCall.ok
    /\ lastCall.task # lastCall.dep
    /\ Edges(graph) # {}

\* position of an ID in a sequence of distinct IDs (0 when absent)
PosIn(seq, x) == IF \E i \in 1..Len(seq) : seq[i] = x
                 THEN CHOOSE i \in 1..Len(seq) : seq[i] = x
                 ELSE 0

\* C4: on an acyclic graph, get_execution_order of a list of distinct IDs
\* returns Ok with every input ID exactly once, and for every edge (task
\* depends on dep) with both ends in the input, dep is before task.
C4_OrderOnDag ==
    (lastOrder.called /\ Acyclic(graph)) =>
        LET in  == lastOrder.tasks
            out == lastOrder.res.order
        IN  /\ lastOrder.res.ok
            /\ Len(out) = Len(in)
            /\ SeqToSet(out) = SeqToSet(in)
            /\ \A e \in Edges(graph) :
                  (e[1] \in SeqToSet(in) /\ e[2] \in SeqToSet(in)) =>
                      PosIn(out, e[2]) < PosIn(out, e[1])

\* get_execution_order has run on an acyclic graph with a task listed
\* before its dependency, a task with two dependencies, and an ID of the
\* graph that is not in the input
C4_Witness ==
    /\ lastOrder.called
    /\ Acyclic(graph)
    /\ \E e \in Edges(graph) :
          /\ PosIn(lastOrder.tasks, e[1]) > 0
          /\ PosIn(lastOrder.tasks, e[2]) > PosIn(lastOrder.tasks, e[1])
    /\ \E e \in Edges(graph) : e[2] \notin SeqToSet(lastOrder.tasks)
    /\ \E t \in IDs : Cardinality(get_dependencies(graph, t)) >= 2

\* C29: the forward and the reverse index hold the same edges: dep is in
\* dependencies[task] exactly when task is in dependents[dep].
C29_IndicesMirror ==
    \A t \in IDs : \A d \in IDs :
        d \in get_dependencies(graph, t) <=> t \in get_dependents(graph, d)

\* a remove_dependency call has taken an edge out of a graph that still
\* holds another edge
C29_Witness ==
    /\ lastCall.op = "remove"
    /\ lastCall.dep \notin get_dependencies(graph, lastCall.task)
    /\ lastCall.task \in DOMAIN graph.dependencies
    /\ lastCall.dep \in DOMAIN graph.dependents
    /\ Edges(graph) # {}

\* the IDs that get_execution_order comes to from task t: t and what it
\* depends on, directly or not
ReachedFrom(g, t) == {t} \cup Closure(g, get_dependencies(g, t))

\* a dependency cycle can be reached from a task of the list
CycleReachable(g, tasks) ==
    \E t \in SeqToSet(tasks) : \E n \in ReachedFrom(g, t) : DependsOn(g, n, n)

\* C30: get_execution_order returns the error exactly when a dependency
\* cycle can be reached from a task of the input list; an Ok result holds
\* IDs of the input list only, and an input task comes after every input
\* task it depends on, also when the dependency goes through IDs that are
\* not in the list.
C30_CycleErrorInputOnly ==
    lastOrder.called =>
        LET in  == SeqToSet(lastOrder.tasks)
            out == lastOrder.res.order
        IN  /\ CycleReachable(graph, lastOrder.tasks) <=> ~lastOrder.res.ok
            /\ lastOrder.res.ok =>
                  /\ SeqToSet(out) \subseteq in
                  /\ \A t \in in : \A d \in in :
                        DependsOn(graph, t, d) => PosIn(out, d) < PosIn(out, t)

\* get_execution_order has returned the error for a node that is not in
\* the input list
C30_Witness ==
    /\ lastOrder.called
    /\ ~lastOrder.res.ok
    /\ lastOrder.tasks # <<>>
    /\ lastOrder.res.node \notin SeqToSet(lastOrder.tasks)

\* get_execution_order has returned Ok for two tasks of which one depends
\* on the other through an ID that is not in the input list
C30_WitnessAbsentTraversed ==
    /\ lastOrder.called
    /\ lastOrder.res.ok
    /\ \E t \in SeqToSet(lastOrder.tasks) : \E d \in SeqToSet(lastOrder.tasks) :
          /\ d \notin get_dependencies(graph, t)
          /\ DependsOn(graph, t, d)

\* C5: get_execution_order is deterministic: for the same edge set and the
\* same input task list a second run returns the same sequence of IDs.
C5_OrderDeterministic ==
    [][(/\ lastOrder.called
        /\ lastOrder'.called
        /\ lastOrder'.tasks = lastOrder.tasks
        /\ graph' = graph) => lastOrder'.res = lastOrder.res]_vars

\* C25: are_dependencies_met(task, tasks) returns true exactly when every
\* dependency recorded for the task is the ID of a task of the list that
\* has status Done: true for a task with no recorded dependency, false
\* when a dependency is absent from the list.
C25_DependenciesMet ==
    lastMet.called =>
        (lastMet.res <=>
            \A d \in get_dependencies(graph, lastMet.task) :
                \E i \in 1..Len(lastMet.tasks) :
                    /\ lastMet.tasks[i].id = d
                    /\ lastMet.tasks[i].status = "Done")

\* are_dependencies_met returned false for a task with two dependencies,
\* one Done in the list and the other absent from it
C25_Witness ==
    /\ lastMet.called
    /\ ~lastMet.res
    /\ Cardinality(get_dependencies(graph, lastMet.task)) = 2
    /\ \E d \in get_dependencies(graph, lastMet.task) :
          \E i \in 1..Len(lastMet.tasks) :
              lastMet.tasks[i].id = d /\ lastMet.tasks[i].status = "Done"
    /\ \E d \in get_dependencies(graph, lastMet.task) :
          \A i \in 1..Len(lastMet.tasks) : lastMet.tasks[i].id # d


(***************************************************************************)
(* Project (project.rs): the dependency operations on Project.tasks. A     *)
(* task is [id, dependencies]; dependencies is the Vec of                  *)
(* Option<Vec<u32>>, None being <<>> (the operations never leave           *)
(* Some(empty)).                                                           *)
(***************************************************************************)
\* Task::new(id, ..): dependencies None
NewTask(id) == [id |-> id, dependencies |-> <<>>]

TaskIdsOf(tasks) == { tasks[i].id : i \in 1..Len(tasks) }

\* for &dep_id in deps { graph.add_dependency(task.id, dep_id)?; }
RECURSIVE add_task_deps(_, _, _, _)
add_task_deps(acc, id, deps, j) ==
    IF j > Len(deps) \/ ~acc.ok THEN acc
    ELSE add_task_deps(add_dependency(acc.g, id, deps[j]), id, deps, j + 1)

\* for task in &self.tasks { ... }: the graph rebuilt from the tasks' lists,
\* [ok, g]; ok = FALSE when an add_dependency call returned Err
RECURSIVE build_graph(_, _, _)
build_graph(acc, tasks, i) ==
    IF i > Len(tasks) \/ ~acc.ok THEN acc
    ELSE build_graph(add_task_deps(acc, tasks[i].id, tasks[i].dependencies, 1),
                     tasks, i + 1)

rebuilt_graph(tasks) == build_graph([ok |-> TRUE, g |-> NewGraph], tasks, 1)

\* add_task_dependency: the set of [res, tasks] it can end in; the new Vec
\* is collected from a HashSet, in any order
add_task_dependency(tasks, task_id, dependency_id) ==
    IF task_id \notin TaskIdsOf(tasks)
    THEN {[res |-> "TaskNotFound", tasks |-> tasks]}
    ELSE IF dependency_id \notin TaskIdsOf(tasks)
    THEN {[res |-> "TaskNotFound", tasks |-> tasks]}
    ELSE LET built == rebuilt_graph(tasks)
         IN  IF ~built.ok
             THEN {[res |-> "InvalidOperation", tasks |-> tasks]}
             ELSE LET added == add_dependency(built.g, task_id, dependency_id)
                  IN  IF ~added.ok
                      THEN {[res |-> "InvalidOperation", tasks |-> tasks]}
                      ELSE { [res |-> "Ok",
                              tasks |-> [i \in 1..Len(tasks) |->
                                  IF tasks[i].id = task_id
                                  THEN [tasks[i] EXCEPT !.dependencies = deps]
                                  ELSE tasks[i]]]
                             : deps \in Perms(get_dependencies(added.g, task_id)) }

\* deps.retain(|&id| id != dependency_id)
RECURSIVE retain_not(_, _)
retain_not(deps, dependency_id) ==
    IF deps = <<>> THEN <<>>
    ELSE IF Head(deps) = dependency_id
         THEN retain_not(Tail(deps), dependency_id)
         ELSE <<Head(deps)>> \o retain_not(Tail(deps), dependency_id)

\* remove_task_dependency: [res, tasks]
remove_task_dependency(tasks, task_id, dependency_id) ==
    IF task_id \notin TaskIdsOf(tasks)
    THEN [res |-> "TaskNotFound", tasks |-> tasks]
    ELSE [res |-> "Ok",
          tasks |-> [i \in 1..Len(tasks) |->
              IF tasks[i].id = task_id
              THEN [tasks[i] EXCEPT !.dependencies = retain_not(@, dependency_id)]
              ELSE tasks[i]]]

\* get_task_execution_order: the set of [res, order] it can return, the
\* tasks of the order given by their IDs
get_task_execution_order(tasks) ==
    LET built == rebuilt_graph(tasks)
    IN  IF ~built.ok
        THEN {[res |-> "InvalidOperation", order |-> <<>>]}
        ELSE { [res |-> IF r.ok THEN "Ok" ELSE "InvalidOperation", order |-> r.order]
               : r \in get_execution_order(built.g,
                                           [i \in 1..Len(tasks) |-> tasks[i].id]) }

(***************************************************************************)
(* SpecProject: the project of test_task_dependencies after its add_task   *)
(* calls (tasks 1..NumTasks, no dependency), under at most MaxProjCalls    *)
(* add_task_dependency/remove_task_dependency calls, with IDs up to        *)
(* NumTasks + 1 (an ID of no task), and get_task_execution_order calls.    *)
(***************************************************************************)
InitProject ==
    /\ graph = NewGraph
    /\ nCalls = 0
    /\ lastCall = NoCall
    /\ lastOrder = NoOrder
    /\ lastMet = NoMet
    /\ NoAux
    /\ project = [i \in 1..NumTasks |-> NewTask(i)]
    /\ nProjCalls = 0
    /\ projRes = NoProjCall
    /\ PoolInit
    /\ NoExecutor
    /\ NoHub

ProjIdle == projRes = NoProjCall

AddTaskDependency(t, d) ==
    /\ ProjIdle
    /\ nProjCalls < MaxProjCalls
    /\ nProjCalls' = nProjCalls + 1
    /\ \E r \in add_task_dependency(project, t, d) :
          /\ project' = r.tasks
          /\ projRes' = [op |-> "add", task |-> t, dep |-> d,
                         res |-> r.res, order |-> <<>>]
    /\ UNCHANGED <<graphVars, poolVars, execVars, hubVars, auxVars>>

RemoveTaskDependency(t, d) ==
    LET r == remove_task_dependency(project, t, d)
    IN  /\ ProjIdle
        /\ nProjCalls < MaxProjCalls
        /\ nProjCalls' = nProjCalls + 1
        /\ project' = r.tasks
        /\ projRes' = [op |-> "remove", task |-> t, dep |-> d,
                       res |-> r.res, order |-> <<>>]
        /\ UNCHANGED <<graphVars, poolVars, execVars, hubVars, auxVars>>

GetTaskExecutionOrder ==
    /\ ProjIdle
    /\ \E r \in get_task_execution_order(project) :
          projRes' = [op |-> "order", task |-> 0, dep |-> 0,
                      res |-> r.res, order |-> r.order]
    /\ UNCHANGED <<graphVars, project, nProjCalls, poolVars, execVars, hubVars, auxVars>>

ProjTakeResult ==
    /\ ~ProjIdle
    /\ projRes' = NoProjCall
    /\ UNCHANGED <<graphVars, project, nProjCalls, poolVars, execVars, hubVars, auxVars>>

NextProject ==
    \/ \E t \in 1..(NumTasks + 1), d \in 1..(NumTasks + 1) : AddTaskDependency(t, d)
    \/ \E t \in 1..(NumTasks + 1), d \in 1..(NumTasks + 1) : RemoveTaskDependency(t, d)
    \/ GetTaskExecutionOrder
    \/ ProjTakeResult

SpecProject == InitProject /\ [][NextProject]_vars

\* the dependency lists of the tasks as a forward index
ProjectDeps(tasks) ==
    [dependencies |-> [id \in TaskIdsOf(tasks) |->
        UNION { SeqToSet(tasks[i].dependencies)
                : i \in { j \in 1..Len(tasks) : tasks[j].id = id } }],
     dependents |-> EmptyMap]

\* tasks 1..4 with 2 -> 1, 3 -> 2, 4 -> 3
ChainProject ==
    [i \in 1..NumTasks |->
        [id |-> i, dependencies |-> IF i = 1 THEN <<>> ELSE <<i - 1>>]]

\* C2: with the chain 2 -> 1, 3 -> 2, 4 -> 3 get_task_execution_order
\* returns [1,2,3,4]; and add_task_dependency(t, d) fails with
\* InvalidOperation, leaving every task's dependency list unchanged,
\* whenever d already depends on t directly or transitively (as
\* add_task_dependency(1, 4) on the chain).
C2_CycleRejected ==
    [][ /\ (projRes'.op = "order" /\ project = ChainProject)
            => (projRes'.res = "Ok" /\ projRes'.order = <<1, 2, 3, 4>>)
        /\ (/\ projRes'.op = "add"
            /\ ProjIdle
            /\ projRes'.task \in TaskIdsOf(project)
            /\ projRes'.dep \in TaskIdsOf(project)
            /\ DependsOn(ProjectDeps(project), projRes'.dep, projRes'.task))
            => (projRes'.res = "InvalidOperation" /\ project' = project) ]_vars


(***************************************************************************)
(* WorkerPool (worker_pool.rs)                                             *)
(***************************************************************************)
\* a variant that reports every job as a success
job_result_always_ok(task_id, ret) ==
    [task_id |-> task_id, success |-> TRUE, error_message |-> "None"]

\* the JobResult a worker builds from the handler's return value
job_result(task_id, ret) ==
    IF ret = "Ok"
    THEN [task_id |-> task_id, success |-> TRUE, error_message |-> "None"]
    ELSE [task_id |-> task_id, success |-> FALSE, error_message |-> "Some"]

\* a variant that puts the Terminate message in front of the queued messages
send_terminate_first(q) == <<Terminate>> \o q

\* self.sender.send(Message::Terminate)
send_terminate(q) == Append(q, Terminate)

\* a variant whose Terminate arm does not leave the loop
after_message_no_break(msg) == IF msg.type = "NewTask" THEN "run" ELSE "idle"

\* match message: the NewTask arm runs the job, the Terminate arm breaks
after_message(msg) == IF msg.type = "NewTask" THEN "run" ELSE "exited"

\* a variant whose worker thread ends when the handler returned an error
after_job_err_exits(ret) == IF ret = "Err" THEN "exited" ELSE "idle"

\* the end of the NewTask arm, for either return value of the handler: the
\* thread goes back to the top of its loop
after_job(ret) == "idle"

\* the states of a WorkerPool value: in use, and the three stages of
\* Drop::drop; its fields are dropped after Drop::drop has returned
PoolStates == {"live", "terminating", "joining", "dropped"}

\* a variant in which the beginning of shutdown closes the channel
channel_closed_by_shutdown(pc) == pc # "live"

\* sender.send fails when every Receiver of the channel has been dropped.
\* The pool keeps an Arc of the Receiver in its field `receiver`, so the
\* channel is open in every state of a WorkerPool value.
channel_closed(pc) == pc \notin PoolStates

\* WorkerPool::execute(job) on the submission queue q: what it returns and
\* the queue it leaves
execute(q, msg, closed) ==
    IF closed
    THEN [res |-> "InvalidOperation", queue |-> q]
    ELSE [res |-> "Ok", queue |-> Append(q, msg)]

\* a call of WorkerPool::execute(job).  It takes &self, and Drop::drop has
\* &mut self: the pool can be called only before its shutdown begins.
Execute(id, handler) ==
    /\ poolPc = "live"
    /\ NumJobs(submitted) < MaxJobs
    /\ LET r == execute(queue, NewTaskMsg(id, handler), channel_closed(poolPc))
       IN  /\ queue' = r.queue
           /\ submitted' = IF r.res = "Ok"
                           THEN [submitted EXCEPT ![<<id, handler>>] = @ + 1]
                           ELSE submitted
    /\ UNCHANGED <<rxLock, wk, results, taken, poolPc, termSent, joined>>
    /\ UNCHANGED <<graphVars, projVars, execVars, hubVars, auxVars>>

\* receiver.lock().unwrap()
WorkerLock(w) ==
    /\ wk[w].pc = "idle"
    /\ rxLock = 0
    /\ rxLock' = w
    /\ wk' = [wk EXCEPT ![w].pc = "recv"]
    /\ UNCHANGED <<queue, results, taken, submitted, poolPc, termSent, joined>>
    /\ UNCHANGED <<graphVars, projVars, execState, hubVars, auxVars>>
    /\ execRes' = NoExecRes

\* a variant of the worker loop that keeps the guard of the receiver for
\* the whole turn of the loop
guard_kept_for_job(w) == w

\* the holder of the receiver's Mutex after `let message =
\* receiver.lock().unwrap().recv().unwrap();`: the guard is a temporary of
\* that statement and is dropped at its end
guard_after_recv(w) == 0

\* .recv().unwrap() under the lock, then the match on the message
WorkerRecv(w) ==
    /\ wk[w].pc = "recv"
    /\ queue # <<>>
    /\ queue' = Tail(queue)
    /\ rxLock' = guard_after_recv(w)
    /\ wk' = [wk EXCEPT ![w] = [pc |-> after_message(Head(queue)),
                                job |-> IF Head(queue).type = "NewTask"
                                        THEN Head(queue) ELSE NoJob,
                                ret |-> "none",
                                wake |-> IF Head(queue).handler = "Exec"
                                         THEN WorkSecs ELSE 0]]
    /\ UNCHANGED <<results, taken, submitted, poolPc, termSent, joined>>
    /\ UNCHANGED <<graphVars, projVars, execState, hubVars, auxVars>>
    /\ execRes' = NoExecRes

\* (job.handler)(job.task) of a handler that returns Ok or Err at once
WorkerRun(w) ==
    /\ wk[w].pc = "run"
    /\ wk[w].job.handler \in {"Ok", "Err"}
    /\ wk' = [wk EXCEPT ![w].pc = "send", ![w].ret = wk[w].job.handler]
    /\ UNCHANGED <<queue, rxLock, results, taken, submitted, poolPc, termSent, joined>>
    /\ UNCHANGED <<graphVars, projVars, execVars, hubVars, auxVars>>

\* results_sender.send(job_result).unwrap()
WorkerSend(w) ==
    /\ wk[w].pc = "send"
    /\ results' = Append(results, job_result(wk[w].job.id, wk[w].ret))
    /\ wk' = [wk EXCEPT ![w] = [pc |-> after_job(wk[w].ret), job |-> NoJob,
                                ret |-> "none", wake |-> 0]]
    /\ UNCHANGED <<queue, rxLock, taken, submitted, poolPc, termSent, joined>>
    /\ UNCHANGED <<graphVars, projVars, execState, hubVars, auxVars>>
    /\ execRes' = NoExecRes

\* WorkerPool::try_get_result with a result available
TryGetResult ==
    /\ poolPc = "live"
    /\ results # <<>>
    /\ results' = Tail(results)
    /\ taken' = Append(taken, Head(results))
    /\ UNCHANGED <<queue, rxLock, wk, submitted, poolPc, termSent, joined>>
    /\ UNCHANGED <<graphVars, projVars, execState, hubVars, auxVars>>
    /\ execRes' = NoExecRes

\* Drop::drop is entered
DropBegin ==
    /\ poolPc = "live"
    /\ poolPc' = "terminating"
    /\ UNCHANGED <<queue, rxLock, wk, results, taken, submitted, termSent, joined>>
    /\ UNCHANGED <<graphVars, projVars, execVars, hubVars, auxVars>>

\* for _ in &self.workers { self.sender.send(Message::Terminate).unwrap(); }
DropSendTerminate ==
    /\ poolPc = "terminating"
    /\ IF termSent < NumWorkers
       THEN /\ queue' = send_terminate(queue)
            /\ termSent' = termSent + 1
            /\ UNCHANGED poolPc
       ELSE /\ poolPc' = "joining"
            /\ UNCHANGED <<queue, termSent>>
    /\ UNCHANGED <<rxLock, wk, results, taken, submitted, joined>>
    /\ UNCHANGED <<graphVars, projVars, execVars, hubVars, auxVars>>

\* for worker in &mut self.workers { thread.join().unwrap(); }
DropJoin ==
    /\ poolPc = "joining"
    /\ IF joined < NumWorkers
       THEN /\ wk[joined + 1].pc = "exited"
            /\ joined' = joined + 1
            /\ UNCHANGED poolPc
       ELSE /\ poolPc' = "dropped"
            /\ UNCHANGED joined
    /\ UNCHANGED <<queue, rxLock, wk, results, taken, submitted, termSent>>
    /\ UNCHANGED <<graphVars, projVars, execVars, hubVars, auxVars>>

WorkerStep(w) == WorkerLock(w) \/ WorkerRecv(w) \/ WorkerRun(w) \/ WorkerSend(w)

NextPool ==
    \/ \E id \in TaskIDs, h \in {"Ok", "Err"} : Execute(id, h)
    \/ \E w \in Workers : WorkerLock(w)
    \/ \E w \in Workers : WorkerRecv(w)
    \/ \E w \in Workers : WorkerRun(w)
    \/ \E w \in Workers : WorkerSend(w)
    \/ DropBegin
    \/ DropSendTerminate
    \/ DropJoin

SpecPool == Init /\ [][NextPool]_vars

\* The worker threads and the thread running Drop::drop are scheduled
\* fairly, and a handler returns.
SpecPoolFair ==
    /\ SpecPool
    /\ \A w \in Workers : WF_vars(WorkerStep(w))
    /\ WF_vars(DropSendTerminate)
    /\ WF_vars(DropJoin)


(***************************************************************************)
(* Properties of the worker pool.                                          *)
(***************************************************************************)
\* every JobResult sent so far, in the order sent
Published == taken \o results

\* a job or a result tagged (task ID, success)
IsJob(m, id, ok) == m.type = "NewTask" /\ m.id = id /\ (m.handler # "Err") = ok

\* the jobs with that tag given to execute, still queued, held by a worker,
\* and the results with that tag
NumSubmitted(id, ok) ==
    IF ok THEN submitted[<<id, "Ok">>] + submitted[<<id, "Exec">>]
    ELSE submitted[<<id, "Err">>]
NumQueued(id, ok) == Cardinality({ i \in 1..Len(queue) : IsJob(queue[i], id, ok) })
NumHeld(id, ok) == Cardinality({ w \in Workers : IsJob(wk[w].job, id, ok) })
NumPublished(id, ok) ==
    Cardinality({ i \in 1..Len(Published) :
                    Published[i].task_id = id /\ Published[i].success = ok })

\* every job is queued, held by one worker or has one published result
EachJobOnce ==
    \A id \in TaskIDs, ok \in BOOLEAN :
        NumQueued(id, ok) + NumHeld(id, ok) + NumPublished(id, ok) = NumSubmitted(id, ok)

AllPublished ==
    \A id \in TaskIDs, ok \in BOOLEAN : NumPublished(id, ok) = NumSubmitted(id, ok)

\* C6: for the jobs given to execute, exactly one JobResult per job is
\* eventually published, with the job's task ID and success = (the handler
\* returned Ok), in every interleaving of the workers: never none, never
\* two, so the multiset of results is that of the jobs.
C6_OneResultPerJob == []EachJobOnce /\ <>[]AllPublished

\* two jobs with different task IDs were given to execute, one failing,
\* and both results are published
C6_Witness ==
    /\ NumJobs(submitted) >= 2
    /\ AllPublished
    /\ \E i, j \in 1..Len(Published) :
          /\ ~Published[i].success
          /\ Published[j].success
          /\ Published[i].task_id # Published[j].task_id

\* C7: shutdown drops no accepted job: the Terminate messages are queued
\* behind every job, so no worker has received a Terminate while a job is
\* still queued, and when the worker threads have exited every job given
\* to execute has its JobResult published.
C7_NoJobDropped ==
    /\ \A i \in 1..Len(queue), j \in 1..Len(queue) :
          (i < j /\ queue[i].type = "Terminate") => queue[j].type = "Terminate"
    /\ (\E w \in Workers : wk[w].pc = "exited") =>
          (\A i \in 1..Len(queue) : queue[i].type = "Terminate")
    /\ \A w \in Workers : wk[w].pc = "exited" => wk[w].job = NoJob
    /\ (\A w \in Workers : wk[w].pc = "exited") => AllPublished

\* Drop::drop has sent a Terminate while a job is still queued and another
\* is being run
C7_Witness ==
    /\ \E i \in 1..Len(queue) : queue[i].type = "NewTask"
    /\ \E i \in 1..Len(queue) : queue[i].type = "Terminate"
    /\ \E w \in Workers : wk[w].pc = "run"

NumTerminates == Cardinality({ i \in 1..Len(queue) : queue[i].type = "Terminate" })

NumExited == Cardinality({ w \in Workers : wk[w].pc = "exited" })

\* C8: shutdown terminates: Drop::drop sends exactly NumWorkers Terminate
\* messages, every worker consumes exactly one and exits, and the joins
\* complete, whatever is queued or running when drop starts.
C8_ShutdownTerminates ==
    /\ [](termSent <= NumWorkers)
    /\ [](poolPc \in {"joining", "dropped"} => termSent = NumWorkers)
    /\ [](NumTerminates + NumExited = termSent)
    /\ (poolPc = "terminating") ~>
          (poolPc = "dropped" /\ joined = NumWorkers /\ NumExited = NumWorkers)

\* the pool is dropped after running two jobs
C8_Witness ==
    /\ poolPc = "dropped"
    /\ joined = NumWorkers
    /\ Len(Published) >= 2

\* the worker threads in their loop
NumLive == Cardinality({ w \in Workers : wk[w].pc \in {"idle", "recv", "run", "send"} })

\* the failure results published so far
NumFailures == Cardinality({ i \in 1..Len(Published) : ~Published[i].success })

\* the jobs given to execute whose handler returns an error
NumFailing == SumOver(submitted, TaskIDs \X {"Err"})

\* C23: a job whose handler returns an error does not end its worker: the
\* worker publishes a JobResult with the job's ID, success = false and the
\* error text and is back at the top of its loop, and a worker thread ends
\* only by taking a Terminate message, so that until shutdown the pool has
\* its NumWorkers live workers whatever number of jobs has failed.
C23_FailedJobKeepsWorker ==
    /\ [][\A w \in Workers :
            (wk[w].pc = "send" /\ wk[w].ret = "Err" /\ wk'[w] # wk[w]) =>
                /\ results' = Append(results, [task_id |-> wk[w].job.id,
                                               success |-> FALSE,
                                               error_message |-> "Some"])
                /\ wk'[w].pc = "idle"]_vars
    /\ [](NumLive + NumExited = NumWorkers)
    /\ [](NumExited + NumTerminates = termSent)
    /\ [](poolPc = "live" => NumLive = NumWorkers)

\* every job given to execute has failed, and a worker is running the
\* handler of a later job while the pool has all its workers
C23_Witness ==
    /\ poolPc = "live"
    /\ NumFailures >= 1
    /\ NumFailures = NumFailing
    /\ NumLive = NumWorkers
    /\ \E w \in Workers : wk[w].pc = "run"

\* the messages execute can be called with
NewTaskMsgs == { NewTaskMsg(j[1], j[2]) : j \in JobKinds }

running_insert(r, id, t) ==
    [k \in DOMAIN r \cup {id} |-> IF k = id THEN t ELSE r[k]]

\* running.remove(&task_id)
running_remove(r, id) == [k \in DOMAIN r \ {id} |-> r[k]]

\* a variant of the unit of work that leaves the running index alone
mark_completed_skipped(r, id) == r

\* "Mark the task as completed": the unit of work, after its sleep, takes
\* the lock and removes its own ID
mark_completed(r, id) == running_remove(r, id)

\* a variant that also takes the IDs whose elapsed time equals the timeout
timed_out_at_timeout(r) == { id \in DOMAIN r : r[id] >= TimeoutSecs }

\* a variant of the unit of work that gives up when its ID is no longer in
\* the running index
handler_proceeds_if_recorded(r, id) == id \in DOMAIN r

\* whether the unit of work goes on after its sleep: the closure and the
\* spawned task never look at the running index before they remove their ID
handler_proceeds(r, id) == TRUE

\* the IDs whose time since their start is greater than the timeout
timed_out(r) == { id \in DOMAIN r : r[id] > TimeoutSecs }

\* check_timeouts: the IDs returned (a Vec in the iteration
\* order of the HashMap, given here as the set of its elements) and the
\* running index it leaves
check_timeouts(r) ==
    [ids |-> timed_out(r),
     running |-> [k \in DOMAIN r \ timed_out(r) |-> r[k]]]

\* a variant that answers Ok whether or not the ID was present
cancel_task_always_ok(r, id) == [res |-> "Ok", running |-> running_remove(r, id)]

\* cancel_task(task_id): what it returns and the running index it leaves
cancel_task(r, id) ==
    IF id \in DOMAIN r
    THEN [res |-> "Ok", running |-> running_remove(r, id)]
    ELSE [res |-> "TaskNotFound", running |-> r]

\* TaskEvent::Started { task_id }
Started(id) == [type |-> "Started", task_id |-> id]

\* TaskEvent::Completed { task_id }
Completed(id) == [type |-> "Completed", task_id |-> id]

\* a variant of the channel that takes events without limit
unbounded_channel(ch) == TRUE

\* the channel of mpsc::channel(channel_capacity) has room for one more
\* event; a send on a full channel waits until it has
has_capacity(ch) == Len(ch) < ChannelCapacity

\* a variant of the channel that hands out the newest event first
event_send_in_front(ch, ev) == <<ev>> \o ch

\* event_tx.send(event).await on a channel with room: the event goes behind
\* the events already in the channel
event_send(ch, ev) == Append(ch, ev)

\* the number of execute_task calls made so far
NumExecCalls == SumOver(execCalls, TaskIDs)

\* AsyncTaskExecutor has no worker pool: no worker thread, no job channel
NoPool ==
    /\ queue = <<>>
    /\ rxLock = 0
    /\ wk = [w \in Workers |-> [pc |-> "absent", job |-> NoJob, ret |-> "none", wake |-> 0]]
    /\ results = <<>>
    /\ taken = <<>>
    /\ submitted = [j \in JobKinds |-> 0]
    /\ poolPc = "absent"
    /\ termSent = 0
    /\ joined = 0

InitExec ==
    /\ graph = NewGraph
    /\ nCalls = 0
    /\ lastCall = NoCall
    /\ lastOrder = NoOrder
    /\ lastMet = NoMet
    /\ NoAux
    /\ project = ProjectInit
    /\ nProjCalls = 0
    /\ projRes = NoProjCall
    /\ mode \in {"sync", "async"}
    /\ IF mode = "sync" THEN PoolInit ELSE NoPool
    /\ ExecInit
    /\ NoHub

\* TaskExecutor::execute_task up to the end of the block that marks the task
\* as running
ExecuteTaskInsert(id) ==
    /\ mode = "sync"
    /\ calls = EmptyBag
    /\ NumExecCalls < MaxJobs
    /\ running' = running_insert(running, id, 0)
    /\ execCalls' = [execCalls EXCEPT ![id] = @ + 1]
    /\ calls' = SetToBag({id})
    /\ UNCHANGED <<mode, bodies, events, delivered>>
    /\ execRes' = NoExecRes
    /\ UNCHANGED <<graphVars, projVars, poolVars, hubVars, auxVars>>

\* the rest of TaskExecutor::execute_task: the job is built and given to
\* worker_pool.execute
ExecuteTaskDispatch ==
    /\ mode = "sync"
    /\ \E id \in BagToSet(calls) :
        /\ queue' = Append(queue, NewTaskMsg(id, "Exec"))
        /\ submitted' = [submitted EXCEPT ![<<id, "Exec">>] = @ + 1]
        /\ calls' = calls (-) SetToBag({id})
    /\ UNCHANGED <<rxLock, wk, results, taken, poolPc, termSent, joined>>
    /\ UNCHANGED <<mode, running, execCalls, bodies, events, delivered>>
    /\ execRes' = NoExecRes
    /\ UNCHANGED <<graphVars, projVars, hubVars, auxVars>>

\* the handler closure of TaskExecutor::execute_task on a worker thread: it
\* sleeps for WorkSecs, removes its ID from the running index, returns Ok
WorkerRunExec(w) ==
    /\ mode = "sync"
    /\ wk[w].pc = "run"
    /\ wk[w].job.handler = "Exec"
    /\ wk[w].wake = 0
    /\ handler_proceeds(running, wk[w].job.id)
    /\ running' = mark_completed(running, wk[w].job.id)
    /\ wk' = [wk EXCEPT ![w].pc = "send", ![w].ret = "Ok"]
    /\ UNCHANGED <<queue, rxLock, results, taken, submitted, poolPc, termSent, joined>>
    /\ UNCHANGED <<mode, execCalls, calls, bodies, events, delivered>>
    /\ execRes' = NoExecRes
    /\ UNCHANGED <<graphVars, projVars, hubVars, auxVars>>

\* cancel_task(task_id) of either executor, called by a caller that drops
\* what it returns: the ID is removed if present (Ok), and nothing changes
\* otherwise (TaskNotFound)
CancelTask(id) ==
    /\ mode \in {"sync", "async"}
    /\ mode = "sync" => calls = EmptyBag
    /\ running' = cancel_task(running, id).running
    /\ execRes' = NoExecRes
    /\ UNCHANGED <<mode, execCalls, calls, bodies, events, delivered>>
    /\ UNCHANGED <<graphVars, projVars, poolVars, hubVars, auxVars>>

\* check_timeouts() of either executor, called by a caller that drops what
\* it returns: the timed-out IDs are collected and then removed, under one
\* lock
CheckTimeouts ==
    /\ mode \in {"sync", "async"}
    /\ mode = "sync" => calls = EmptyBag
    /\ running' = check_timeouts(running).running
    /\ execRes' = NoExecRes
    /\ UNCHANGED <<mode, execCalls, calls, bodies, events, delivered>>
    /\ UNCHANGED <<graphVars, projVars, poolVars, hubVars, auxVars>>

\* one turn of the loop of TaskExecutor::collect_results that finds a result
CollectResult ==
    /\ mode = "sync"
    /\ calls = EmptyBag
    /\ TryGetResult

\* AsyncTaskExecutor::execute_task up to the end of the block that inserts
\* into running_tasks
AsyncExecuteTaskInsert(id) ==
    /\ mode = "async"
    /\ NumExecCalls < MaxJobs
    /\ running' = running_insert(running, id, 0)
    /\ execCalls' = [execCalls EXCEPT ![id] = @ + 1]
    /\ calls' = calls (+) SetToBag({id})
    /\ UNCHANGED <<mode, bodies, events, delivered>>
    /\ execRes' = NoExecRes
    /\ UNCHANGED <<graphVars, projVars, poolVars, hubVars, auxVars>>

\* the rest of AsyncTaskExecutor::execute_task: the Started event is sent,
\* which waits while the channel is full, and the unit of work is spawned
AsyncExecuteTaskSpawn ==
    /\ mode = "async"
    /\ has_capacity(events)
    /\ \E id \in BagToSet(calls) :
        /\ events' = event_send(events, Started(id))
        /\ bodies' = bodies (+) SetToBag({[id |-> id, wake |-> WorkSecs,
                                            pc |-> "sleep"]})
        /\ calls' = calls (-) SetToBag({id})
    /\ UNCHANGED <<mode, running, execCalls, delivered>>
    /\ execRes' = NoExecRes
    /\ UNCHANGED <<graphVars, projVars, poolVars, hubVars, auxVars>>

\* the spawned unit of work after its sleep: it removes its ID from the
\* running index
BodyComplete ==
    /\ mode = "async"
    /\ \E b \in BagToSet(bodies) :
        /\ b.pc = "sleep"
        /\ b.wake = 0
        /\ handler_proceeds(running, b.id)
        /\ running' = mark_completed(running, b.id)
        /\ bodies' = (bodies (-) SetToBag({b})) (+) SetToBag({[b EXCEPT !.pc = "send"]})
    /\ UNCHANGED <<mode, execCalls, calls, events, delivered>>
    /\ execRes' = NoExecRes
    /\ UNCHANGED <<graphVars, projVars, poolVars, hubVars, auxVars>>

\* the spawned unit of work sends its Completed event, which waits while the
\* channel is full, and ends
BodySendCompleted ==
    /\ mode = "async"
    /\ has_capacity(events)
    /\ \E b \in BagToSet(bodies) :
        /\ b.pc = "send"
        /\ events' = event_send(events, Completed(b.id))
        /\ bodies' = bodies (-) SetToBag({b})
    /\ UNCHANGED <<mode, running, execCalls, calls, delivered>>
    /\ execRes' = NoExecRes
    /\ UNCHANGED <<graphVars, projVars, poolVars, hubVars, auxVars>>

\* next_event() with an event in the channel
NextEvent ==
    /\ mode = "async"
    /\ events # <<>>
    /\ delivered' = Append(delivered, Head(events))
    /\ events' = Tail(events)
    /\ UNCHANGED <<mode, running, execCalls, calls, bodies>>
    /\ execRes' = NoExecRes
    /\ UNCHANGED <<graphVars, projVars, poolVars, hubVars, auxVars>>

\* a unit of work after one more second of its sleep
slept_one_second(b) == [b EXCEPT !.wake = IF @ > 0 THEN @ - 1 ELSE 0]

\* a second passes: every elapsed time grows, every sleep left and every
\* time left to a deadline shrinks
Tick ==
    /\ running' = [id \in DOMAIN running |->
                      IF running[id] <= TimeoutSecs THEN running[id] + 1
                      ELSE running[id]]
    /\ wk' = [w \in Workers |-> slept_one_second(wk[w])]
    /\ bodies' = [c \in { slept_one_second(b) : b \in BagToSet(bodies) } |->
                      SumOver(bodies, { b \in BagToSet(bodies) : slept_one_second(b) = c })]
    /\ execRes' = NoExecRes
    /\ UNCHANGED <<mode, execCalls, calls, events, delivered>>
    /\ UNCHANGED <<queue, rxLock, results, taken, submitted, poolPc, termSent, joined>>
    /\ deadline_tasks' = [id \in DOMAIN deadline_tasks |->
                             IF deadline_tasks[id] > 0 THEN deadline_tasks[id] - 1 ELSE 0]
    /\ sleepLeft' = IF sleepLeft > 0 THEN sleepLeft - 1 ELSE 0
    /\ UNCHANGED <<hubPc, hubQueue, hubOpen, hubSent, tracked, cbLog, callbacks, invoked>>
    /\ UNCHANGED <<graphVars, projVars, auxVars>>

NextExec ==
    \/ \E id \in TaskIDs : ExecuteTaskInsert(id)
    \/ ExecuteTaskDispatch
    \/ \E w \in Workers : WorkerLock(w)
    \/ \E w \in Workers : WorkerRecv(w)
    \/ \E w \in Workers : WorkerRunExec(w)
    \/ \E w \in Workers : WorkerSend(w)
    \/ CollectResult
    \/ \E id \in TaskIDs : CancelTask(id)
    \/ CheckTimeouts
    \/ \E id \in TaskIDs : AsyncExecuteTaskInsert(id)
    \/ AsyncExecuteTaskSpawn
    \/ BodyComplete
    \/ BodySendCompleted
    \/ NextEvent
    \/ Tick

SpecExec == InitExec /\ [][NextExec]_vars

\* a step of a thread or task that is under way: the caller finishing its
\* execute_task, a worker thread, a spawned unit of work, the reader of the
\* event stream, the clock
ExecStep ==
    \/ ExecuteTaskDispatch
    \/ \E w \in Workers : WorkerLock(w) \/ WorkerRecv(w) \/ WorkerRunExec(w) \/ WorkerSend(w)
    \/ AsyncExecuteTaskSpawn
    \/ BodyComplete
    \/ BodySendCompleted
    \/ NextEvent
    \/ Tick

\* The threads and tasks are scheduled: while one of them can take a step,
\* one of them does.  The event stream has a reader that keeps calling
\* next_event.
SpecExecFair == SpecExec /\ WF_vars(ExecStep)

(***************************************************************************)
(* SpecAsync: an AsyncTaskExecutor alone, with a reader of its event       *)
(* stream.                                                                 *)
(***************************************************************************)
InitAsync ==
    /\ InitExec
    /\ mode = "async"

NextAsync ==
    \/ \E id \in TaskIDs : AsyncExecuteTaskInsert(id)
    \/ AsyncExecuteTaskSpawn
    \/ BodyComplete
    \/ BodySendCompleted
    \/ NextEvent
    \/ \E id \in TaskIDs : CancelTask(id)
    \/ CheckTimeouts
    \/ Tick

SpecAsync == InitAsync /\ [][NextAsync]_vars

\* a step of a task that is under way: an execute_task call at its send, a
\* spawned unit of work, the reader of the event stream, the clock
AsyncStep ==
    \/ AsyncExecuteTaskSpawn
    \/ BodyComplete
    \/ BodySendCompleted
    \/ NextEvent
    \/ Tick

\* The tasks are scheduled: while one of them can take a step, one of them
\* does.  The event stream has a reader that keeps calling next_event.
SpecAsyncFair == SpecAsync /\ WF_vars(AsyncStep)


(***************************************************************************)
(* SpecCalls: the executors of SpecExec with a caller that keeps what      *)
(* cancel_task and check_timeouts return.  execRes holds the value         *)
(* returned by the call the latest step made.                              *)
(* The caller makes these calls and execute_task only: it does not read    *)
(* the results or the events.                                              *)
(***************************************************************************)
\* cancel_task(task_id) of either executor, with the value it returns
CancelTaskCall(id) ==
    /\ mode \in {"sync", "async"}
    /\ mode = "sync" => calls = EmptyBag
    /\ running' = cancel_task(running, id).running
    /\ execRes' = [op |-> "cancel_task", id |-> id,
                   res |-> cancel_task(running, id).res, ids |-> {}]
    /\ UNCHANGED <<mode, execCalls, calls, bodies, events, delivered>>
    /\ UNCHANGED <<graphVars, projVars, poolVars, hubVars, auxVars>>

\* check_timeouts() of either executor, with the IDs it returns
CheckTimeoutsCall ==
    /\ mode \in {"sync", "async"}
    /\ mode = "sync" => calls = EmptyBag
    /\ running' = check_timeouts(running).running
    /\ execRes' = [op |-> "check_timeouts", id |-> 0, res |-> "none",
                   ids |-> check_timeouts(running).ids]
    /\ UNCHANGED <<mode, execCalls, calls, bodies, events, delivered>>
    /\ UNCHANGED <<graphVars, projVars, poolVars, hubVars, auxVars>>

NextCalls ==
    \/ \E id \in TaskIDs : ExecuteTaskInsert(id)
    \/ ExecuteTaskDispatch
    \/ \E w \in Workers : WorkerLock(w)
    \/ \E w \in Workers : WorkerRecv(w)
    \/ \E w \in Workers : WorkerRunExec(w)
    \/ \E w \in Workers : WorkerSend(w)
    \/ \E id \in TaskIDs : CancelTaskCall(id)
    \/ CheckTimeoutsCall
    \/ \E id \in TaskIDs : AsyncExecuteTaskInsert(id)
    \/ AsyncExecuteTaskSpawn
    \/ BodyComplete
    \/ BodySendCompleted
    \/ Tick

SpecCalls == InitExec /\ [][NextCalls]_vars



(***************************************************************************)
(* NotificationSystem (notification.rs).  SpecHub runs start_with_deadlines *)
(* on a hub whose channel is fed the way AsyncTaskExecutor feeds its own:  *)
(* for each task a Started event and later a Completed event.  Time is     *)
(* kept as durations: deadline_tasks holds the seconds left to each        *)
(* deadline (now >= deadline when none is left), sleepLeft the seconds     *)
(* left of the sleep of the select! in progress.                           *)
(***************************************************************************)
\* TaskEvent::Timeout { task_id }
Timeout(id) == [type |-> "Timeout", task_id |-> id]

\* the maps a caller can pass as tasks_with_deadlines
DeadlineMaps == UNION { [S -> 0..MaxDeadline] : S \in SUBSET TaskIDs }

\* for (name, callback) in &self.callbacks { callback(&event) }, for each of
\* the events evs in turn
\* a variant of the callback loop that stops after the first callback
deliver_to_first(log, evs) ==
    [c \in Callbacks |-> IF callbacks # <<>> /\ c = Head(callbacks)
                         THEN log[c] \o evs ELSE log[c]]

deliver(log, evs) ==
    [c \in Callbacks |-> IF c \in SeqToSet(callbacks) THEN log[c] \o evs ELSE log[c]]

\* `for (name, callback) in &self.callbacks`, the order of the calls: the
\* iteration order of the HashMap, for each event of evs
call_order(inv, order, evs) == IF evs = <<>> THEN inv ELSE order

\* a variant of the event branch that keeps the deadline of a completed task
on_event_keeps_deadline(dl, ev) == dl

\* the event branch: a Completed event removes its task from deadline_tasks
on_event(dl, ev) ==
    IF ev.type = "Completed"
    THEN [k \in DOMAIN dl \ {ev.task_id} |-> dl[k]]
    ELSE dl

\* the tick branch: the tasks with now >= deadline
expired(dl) == { id \in DOMAIN dl : dl[id] = 0 }

\* select! runs its else branch when every other branch is disabled, and a
\* branch is disabled when its future has completed with a value that does
\* not match its pattern: `Some(event)` does not match the None that recv
\* gives on a closed and empty channel; `_` matches whatever sleep gives
select_else(queue_, open) ==
    LET recv_disabled == queue_ = <<>> /\ ~open
        sleep_disabled == FALSE
    IN  recv_disabled /\ sleep_disabled

InitHub ==
    /\ graph = NewGraph
    /\ nCalls = 0
    /\ lastCall = NoCall
    /\ lastOrder = NoOrder
    /\ lastMet = NoMet
    /\ NoAux
    /\ project = ProjectInit
    /\ nProjCalls = 0
    /\ projRes = NoProjCall
    /\ PoolInit
    /\ NoExecutor
    /\ hubPc = "deadlines"
    /\ hubQueue = <<>>
    /\ hubOpen = TRUE
    /\ hubSent = [id \in TaskIDs |-> 0]
    /\ deadline_tasks \in DeadlineMaps
    /\ tracked = DOMAIN deadline_tasks
    /\ sleepLeft = TickSecs
    /\ cbLog = [c \in Callbacks |-> <<>>]
    /\ callbacks \in Perms(Callbacks)
    /\ invoked = <<>>

\* the number of events sent to the hub so far
NumHubSent == SumOver(hubSent, TaskIDs)

\* a holder of the Sender sends the Started event of a task
HubEmitStarted(id) ==
    /\ hubOpen
    /\ NumHubSent < MaxHubEvents
    /\ hubSent[id] = 0
    /\ has_capacity(hubQueue)
    /\ hubQueue' = event_send(hubQueue, Started(id))
    /\ hubSent' = [hubSent EXCEPT ![id] = 1]
    /\ UNCHANGED <<hubPc, hubOpen, tracked, deadline_tasks, sleepLeft, cbLog,
                   callbacks, invoked>>
    /\ UNCHANGED <<graphVars, projVars, poolVars, execVars, auxVars>>

\* a holder of the Sender sends the Completed event of a started task
HubEmitCompleted(id) ==
    /\ hubOpen
    /\ NumHubSent < MaxHubEvents
    /\ hubSent[id] = 1
    /\ has_capacity(hubQueue)
    /\ hubQueue' = event_send(hubQueue, Completed(id))
    /\ hubSent' = [hubSent EXCEPT ![id] = 2]
    /\ UNCHANGED <<hubPc, hubOpen, tracked, deadline_tasks, sleepLeft, cbLog,
                   callbacks, invoked>>
    /\ UNCHANGED <<graphVars, projVars, poolVars, execVars, auxVars>>

\* the last Sender of the hub's channel is dropped
HubClose ==
    /\ hubOpen
    /\ hubOpen' = FALSE
    /\ UNCHANGED <<hubPc, hubQueue, hubSent, tracked, deadline_tasks,
                   sleepLeft, cbLog, callbacks, invoked>>
    /\ UNCHANGED <<graphVars, projVars, poolVars, execVars, auxVars>>

\* start_with_deadlines, the branch `Some(event) = self.event_rx.recv()`:
\* the event is handled and the loop comes back to select! with a new sleep
HubEvent ==
    /\ hubPc = "deadlines"
    /\ hubQueue # <<>>
    /\ hubQueue' = Tail(hubQueue)
    /\ deadline_tasks' = on_event(deadline_tasks, Head(hubQueue))
    /\ cbLog' = deliver(cbLog, <<Head(hubQueue)>>)
    /\ invoked' = call_order(invoked, callbacks, <<Head(hubQueue)>>)
    /\ sleepLeft' = TickSecs
    /\ UNCHANGED <<hubPc, hubOpen, hubSent, tracked, callbacks>>
    /\ UNCHANGED <<graphVars, projVars, poolVars, execVars, auxVars>>

\* start_with_deadlines, the branch of the sleep, and the else branch: when
\* the sleep is over the expired tasks are reported, in the iteration order
\* of the HashMap, and dropped from deadline_tasks
HubTimer ==
    /\ hubPc = "deadlines"
    /\ IF select_else(hubQueue, hubOpen)
       THEN /\ hubPc' = "stopped"
            /\ UNCHANGED <<deadline_tasks, cbLog, sleepLeft, invoked>>
       ELSE /\ sleepLeft = 0
            /\ \E order \in Perms(expired(deadline_tasks)) :
                 /\ cbLog' = deliver(cbLog, [i \in 1..Len(order) |-> Timeout(order[i])])
                 /\ invoked' = call_order(invoked, callbacks, order)
            /\ deadline_tasks' = [k \in DOMAIN deadline_tasks \ expired(deadline_tasks) |->
                                     deadline_tasks[k]]
            /\ sleepLeft' = TickSecs
            /\ UNCHANGED hubPc
    /\ UNCHANGED <<hubQueue, hubOpen, hubSent, tracked, callbacks>>
    /\ UNCHANGED <<graphVars, projVars, poolVars, execVars, auxVars>>

NextHub ==
    \/ \E id \in TaskIDs : HubEmitStarted(id)
    \/ \E id \in TaskIDs : HubEmitCompleted(id)
    \/ HubClose
    \/ HubEvent
    \/ HubTimer
    \/ Tick

SpecHub == InitHub /\ [][NextHub]_vars

\* The task running start_with_deadlines is scheduled, and time passes.
SpecHubFair ==
    /\ SpecHub
    /\ WF_vars(HubEvent \/ HubTimer)
    /\ WF_vars(Tick)


(***************************************************************************)
(* SpecTraffic: start_with_deadlines on a stream on which Started events   *)
(* keep arriving, without end and without a Completed event.  The hub has  *)
(* no callback registered, so that nothing records the events it handles.  *)
(***************************************************************************)
InitTraffic ==
    /\ graph = NewGraph
    /\ nCalls = 0
    /\ lastCall = NoCall
    /\ lastOrder = NoOrder
    /\ lastMet = NoMet
    /\ NoAux
    /\ project = ProjectInit
    /\ nProjCalls = 0
    /\ projRes = NoProjCall
    /\ PoolInit
    /\ NoExecutor
    /\ hubPc = "deadlines"
    /\ hubQueue = <<>>
    /\ hubOpen = TRUE
    /\ hubSent = [id \in TaskIDs |-> 0]
    /\ deadline_tasks \in DeadlineMaps
    /\ tracked = DOMAIN deadline_tasks
    /\ sleepLeft = TickSecs
    /\ cbLog = [c \in Callbacks |-> <<>>]
    /\ callbacks = <<>>
    /\ invoked = <<>>

\* a holder of the Sender sends one more Started event of a task
HubEmitTraffic(id) ==
    /\ hubOpen
    /\ has_capacity(hubQueue)
    /\ hubQueue' = event_send(hubQueue, Started(id))
    /\ hubSent' = [hubSent EXCEPT ![id] = 1]
    /\ UNCHANGED <<hubPc, hubOpen, tracked, deadline_tasks, sleepLeft, cbLog,
                   callbacks, invoked>>
    /\ UNCHANGED <<graphVars, projVars, poolVars, execVars, auxVars>>

\* the event branch of start_with_deadlines taken at an instant between two
\* ticks of the clock: the new one-second sleep has a part of a second left
\* at the next tick and is over at the tick after that
HubEventOffTick ==
    /\ hubPc = "deadlines"
    /\ hubQueue # <<>>
    /\ hubQueue' = Tail(hubQueue)
    /\ deadline_tasks' = on_event(deadline_tasks, Head(hubQueue))
    /\ cbLog' = deliver(cbLog, <<Head(hubQueue)>>)
    /\ invoked' = call_order(invoked, callbacks, <<Head(hubQueue)>>)
    /\ sleepLeft' = TickSecs + 1
    /\ UNCHANGED <<hubPc, hubOpen, hubSent, tracked, callbacks>>
    /\ UNCHANGED <<graphVars, projVars, poolVars, execVars, auxVars>>

NextTraffic ==
    \/ \E id \in TaskIDs : HubEmitTraffic(id)
    \/ HubEvent
    \/ HubEventOffTick
    \/ HubTimer
    \/ Tick

SpecTraffic == InitTraffic /\ [][NextTraffic]_vars

\* The task running start_with_deadlines is scheduled and time passes;
\* select! picks at random among the branches that are ready, so a sleep
\* that is over again and again is taken in the end.
SpecTrafficFair ==
    /\ SpecTraffic
    /\ WF_vars(HubEvent \/ HubEventOffTick \/ HubTimer)
    /\ SF_vars(HubTimer)
    /\ WF_vars(Tick)

(***************************************************************************)
(* SpecNotify: test_async.  An AsyncTaskExecutor, which creates its own    *)
(* event channel in new() and keeps both ends (events), and a              *)
(* NotificationSystem running start() on the Receiver of another channel   *)
(* (hubQueue), made by test_async, whose Sender _event_tx is given to      *)
(* nobody and dropped when test_async returns.                             *)
(***************************************************************************)
InitNotify ==
    /\ graph = NewGraph
    /\ nCalls = 0
    /\ lastCall = NoCall
    /\ lastOrder = NoOrder
    /\ lastMet = NoMet
    /\ NoAux
    /\ project = ProjectInit
    /\ nProjCalls = 0
    /\ projRes = NoProjCall
    /\ mode = "async"
    /\ NoPool
    /\ ExecInit
    /\ hubPc = "start"
    /\ hubQueue = <<>>
    /\ hubOpen = TRUE
    /\ hubSent = [id \in TaskIDs |-> 0]
    /\ tracked = {}
    /\ deadline_tasks = EmptyMap
    /\ sleepLeft = 0
    /\ cbLog = [c \in Callbacks |-> <<>>]
    /\ callbacks \in Perms(Callbacks)
    /\ invoked = <<>>

\* one turn of the loop of NotificationSystem::start: recv gives the next
\* event of the hub's channel, which goes to every callback, or None on a
\* closed and empty channel, which ends the loop
HubStart ==
    /\ hubPc = "start"
    /\ IF hubQueue # <<>>
       THEN /\ hubQueue' = Tail(hubQueue)
            /\ cbLog' = deliver(cbLog, <<Head(hubQueue)>>)
            /\ invoked' = call_order(invoked, callbacks, <<Head(hubQueue)>>)
            /\ UNCHANGED hubPc
       ELSE /\ ~hubOpen
            /\ hubPc' = "stopped"
            /\ UNCHANGED <<hubQueue, cbLog, invoked>>
    /\ UNCHANGED <<hubOpen, hubSent, tracked, deadline_tasks, sleepLeft, callbacks>>
    /\ execRes' = NoExecRes
    /\ UNCHANGED <<graphVars, projVars, poolVars, execState, auxVars>>

\* test_async returns, which drops _event_tx, the only Sender of the hub's
\* channel: its execute_task calls have returned and its sleep of five
\* seconds, longer than a unit of work, is over
TestAsyncReturns ==
    /\ NumExecCalls = MaxJobs
    /\ calls = EmptyBag
    /\ \A b \in BagToSet(bodies) : b.wake = 0
    /\ HubClose

NextNotify ==
    \/ \E id \in TaskIDs : AsyncExecuteTaskInsert(id)
    \/ AsyncExecuteTaskSpawn
    \/ BodyComplete
    \/ BodySendCompleted
    \/ NextEvent
    \/ Tick
    \/ HubStart
    \/ TestAsyncReturns

SpecNotify == InitNotify /\ [][NextNotify]_vars

\* The tasks are scheduled: the execute_task calls, the spawned units of
\* work, the task running start(), the clock.
SpecNotifyFair ==
    /\ SpecNotify
    /\ WF_vars(AsyncStep)
    /\ WF_vars(HubStart)


(***************************************************************************)
(* SpecStart: a NotificationSystem from new() on: callbacks are            *)
(* registered, start() runs on a channel whose Sender is held by a task    *)
(* that sends the Started and Completed events of tasks and then drops     *)
(* it.                                                                     *)
(***************************************************************************)
InitStart ==
    /\ graph = NewGraph
    /\ nCalls = 0
    /\ lastCall = NoCall
    /\ lastOrder = NoOrder
    /\ lastMet = NoMet
    /\ NoAux
    /\ project = ProjectInit
    /\ nProjCalls = 0
    /\ projRes = NoProjCall
    /\ PoolInit
    /\ NoExecutor
    /\ hubPc = "new"
    /\ hubQueue = <<>>
    /\ hubOpen = TRUE
    /\ hubSent = [id \in TaskIDs |-> 0]
    /\ tracked = {}
    /\ deadline_tasks = EmptyMap
    /\ sleepLeft = 0
    /\ cbLog = [c \in Callbacks |-> <<>>]
    /\ callbacks = <<>>
    /\ invoked = <<>>

\* register_callback with a new name: the callbacks are numbered in the
\* order of their registration; the insert puts the entry at a place of the
\* HashMap given by the hash of the name, and may move the other entries
RegisterCallback ==
    /\ hubPc = "new"
    /\ Len(callbacks) < NumCallbacks
    /\ callbacks' \in Perms(SeqToSet(callbacks) \cup {Len(callbacks) + 1})
    /\ UNCHANGED <<hubPc, hubQueue, hubOpen, hubSent, tracked, deadline_tasks,
                   sleepLeft, cbLog, invoked>>
    /\ UNCHANGED <<graphVars, projVars, poolVars, execVars, auxVars>>

\* start() is called, which borrows the NotificationSystem for as long as
\* it runs
HubCallStart ==
    /\ hubPc = "new"
    /\ hubPc' = "start"
    /\ UNCHANGED <<hubQueue, hubOpen, hubSent, tracked, deadline_tasks,
                   sleepLeft, cbLog, callbacks, invoked>>
    /\ UNCHANGED <<graphVars, projVars, poolVars, execVars, auxVars>>

NextStart ==
    \/ RegisterCallback
    \/ HubCallStart
    \/ \E id \in TaskIDs : HubEmitStarted(id)
    \/ \E id \in TaskIDs : HubEmitCompleted(id)
    \/ HubClose
    \/ HubStart

SpecStart == InitStart /\ [][NextStart]_vars

\* The task running start() is scheduled.
SpecStartFair == SpecStart /\ WF_vars(HubStart)


(***************************************************************************)
(* SpecLocks: a TaskExecutor with the Mutex of running_tasks made          *)
(* explicit.  A method of the caller's thread, and the closure of a job,   *)
(* take the lock in one step (they wait while another thread holds it) and *)
(* do their work on the running index and drop the guard in the next.      *)
(***************************************************************************)
\* the thread that calls the TaskExecutor
CallerThread == NumWorkers + 1

\* the methods of TaskExecutor that lock running_tasks
LockedOps == {"execute_task", "cancel_task", "check_timeouts", "is_task_running"}

InitLocks == InitExec /\ mode = "sync"

\* self.running_tasks.lock().unwrap() at the start of a method; the tasks
\* given to execute_task have different IDs
CallLock(op, id) ==
    /\ mode = "sync"
    /\ caller = NoCaller
    /\ calls = EmptyBag
    /\ op = "execute_task" => (NumExecCalls < MaxJobs /\ execCalls[id] = 0)
    /\ runLock = 0
    /\ runLock' = CallerThread
    /\ caller' = [op |-> op, id |-> id]
    /\ execRes' = NoExecRes
    /\ UNCHANGED notLock
    /\ UNCHANGED <<graphVars, projVars, poolVars, execState, hubVars>>

\* the method's work under the lock, to the drop of the guard: the insert
\* of execute_task, the remove of cancel_task, the scan and the removes of
\* check_timeouts, the lookup of is_task_running; what the method returns
\* is dropped
CallUnlock ==
    /\ runLock = CallerThread
    /\ runLock' = 0
    /\ caller' = NoCaller
    /\ running' = CASE caller.op = "execute_task" -> running_insert(running, caller.id, 0)
                    [] caller.op = "cancel_task" -> cancel_task(running, caller.id).running
                    [] caller.op = "check_timeouts" -> check_timeouts(running).running
                    [] OTHER -> running
    /\ execCalls' = IF caller.op = "execute_task"
                    THEN [execCalls EXCEPT ![caller.id] = @ + 1] ELSE execCalls
    /\ calls' = IF caller.op = "execute_task" THEN SetToBag({caller.id}) ELSE calls
    /\ execRes' = NoExecRes
    /\ UNCHANGED <<mode, bodies, events, delivered>>
    /\ UNCHANGED notLock
    /\ UNCHANGED <<graphVars, projVars, poolVars, hubVars>>

\* the closure of a job after its sleep: running_tasks.lock().unwrap()
HandlerLock(w) ==
    /\ mode = "sync"
    /\ wk[w].pc = "run"
    /\ wk[w].job.handler = "Exec"
    /\ wk[w].wake = 0
    /\ runLock = 0
    /\ runLock' = w
    /\ wk' = [wk EXCEPT ![w].pc = "remove"]
    /\ execRes' = NoExecRes
    /\ UNCHANGED <<queue, rxLock, results, taken, submitted, poolPc, termSent, joined>>
    /\ UNCHANGED <<caller, notLock>>
    /\ UNCHANGED <<graphVars, projVars, execState, hubVars>>

\* running.remove(&task_id), the drop of the guard, Ok(())
HandlerUnlock(w) ==
    /\ wk[w].pc = "remove"
    /\ runLock = w
    /\ runLock' = 0
    /\ running' = mark_completed(running, wk[w].job.id)
    /\ wk' = [wk EXCEPT ![w].pc = "send", ![w].ret = "Ok"]
    /\ execRes' = NoExecRes
    /\ UNCHANGED <<queue, rxLock, results, taken, submitted, poolPc, termSent, joined>>
    /\ UNCHANGED <<mode, execCalls, calls, bodies, events, delivered>>
    /\ UNCHANGED <<caller, notLock>>
    /\ UNCHANGED <<graphVars, projVars, hubVars>>

NextLocks ==
    \/ \E op \in LockedOps, id \in TaskIDs : CallLock(op, id)
    \/ CallUnlock
    \/ ExecuteTaskDispatch
    \/ \E w \in Workers : WorkerLock(w)
    \/ \E w \in Workers : WorkerRecv(w)
    \/ \E w \in Workers : HandlerLock(w)
    \/ \E w \in Workers : HandlerUnlock(w)
    \/ \E w \in Workers : WorkerSend(w)
    \/ Tick

SpecLocks == InitLocks /\ [][NextLocks]_vars

(***************************************************************************)
(* SpecCollect: a TaskExecutor whose caller submits tasks and calls        *)
(* collect_results while the workers run and publish.                      *)
(***************************************************************************)
\* a variant of the result channel that hands out its newest message
try_get_result_newest(rs) ==
    IF rs = <<>> THEN [some |-> FALSE, got |-> <<>>, rest |-> rs]
    ELSE [some |-> TRUE, got |-> <<rs[Len(rs)]>>, rest |-> SubSeq(rs, 1, Len(rs) - 1)]

\* self.results_receiver.try_recv().ok() on the results sent and not yet
\* received: whether there is one, the result received, the results left
try_get_result(rs) ==
    IF rs = <<>> THEN [some |-> FALSE, got |-> <<>>, rest |-> rs]
    ELSE [some |-> TRUE, got |-> <<Head(rs)>>, rest |-> Tail(rs)]

\* execute_task called between two collect_results calls
CollectExecuteTask(id) ==
    /\ coll.pc # "loop"
    /\ ExecuteTaskInsert(id)

\* collect_results is called: let mut results = Vec::new()
CollectBegin ==
    /\ mode = "sync"
    /\ calls = EmptyBag
    /\ coll.pc # "loop"
    /\ coll' = [pc |-> "loop", prior |-> taken, before |-> results, batch |-> <<>>]
    /\ execRes' = NoExecRes
    /\ UNCHANGED notColl
    /\ UNCHANGED <<graphVars, projVars, poolVars, execState, hubVars>>

\* one turn of `while let Some(result) = self.worker_pool.try_get_result()`:
\* the result is pushed, or the loop ends and the Vec is returned
CollectTurn ==
    /\ coll.pc = "loop"
    /\ LET r == try_get_result(results)
       IN  /\ results' = r.rest
           /\ taken' = taken \o r.got
           /\ coll' = [coll EXCEPT !.batch = @ \o r.got,
                                   !.pc = IF r.some THEN "loop" ELSE "returned"]
    /\ execRes' = NoExecRes
    /\ UNCHANGED <<queue, rxLock, wk, submitted, poolPc, termSent, joined>>
    /\ UNCHANGED notColl
    /\ UNCHANGED <<graphVars, projVars, execState, hubVars>>

NextCollect ==
    \/ \E id \in TaskIDs : CollectExecuteTask(id)
    \/ ExecuteTaskDispatch
    \/ \E w \in Workers : WorkerLock(w)
    \/ \E w \in Workers : WorkerRecv(w)
    \/ \E w \in Workers : WorkerRunExec(w)
    \/ \E w \in Workers : WorkerSend(w)
    \/ CollectBegin
    \/ CollectTurn
    \/ Tick

SpecCollect == InitLocks /\ [][NextCollect]_vars

(***************************************************************************)
(* SpecRegistry: a NotificationSystem whose owner registers and            *)
(* unregisters callbacks by name and then runs start().  The closures      *)
(* given to register_callback are numbered in the order of the calls.      *)
(***************************************************************************)
\* the observer names used
CallbackNames == {"log_events", "metrics"}

\* self.callbacks as the set of its (name, callback) entries
Entries(names, cbs) == { <<names[i], cbs[i]>> : i \in 1..Len(cbs) }

\* a variant of the insert that keeps the entry the name had
hashmap_insert_keeps_old(entries, name, f) == entries \cup {<<name, f>>}

\* self.callbacks.insert(name.to_string(), Box::new(callback)): the entry
\* of the name, if any, is replaced
hashmap_insert(entries, name, f) ==
    {e \in entries : e[1] # name} \cup {<<name, f>>}

\* self.callbacks.remove(name).is_some()
hashmap_remove(entries, name) ==
    [res |-> \E e \in entries : e[1] = name,
     entries |-> {e \in entries : e[1] # name}]

\* the sequence s without the places whose name is `name`
without_name(s, names, name) ==
    LET RECURSIVE keep(_)
        keep(i) == IF i > Len(s) THEN <<>>
                   ELSE IF names[i] = name THEN keep(i + 1)
                   ELSE <<s[i]>> \o keep(i + 1)
    IN  keep(1)

\* register_callback(name, callback) with a new closure: the map may
\* iterate in any order afterwards
RegisterNamed(name) ==
    /\ hubPc = "new"
    /\ reg.made < NumCallbacks
    /\ LET f == reg.made + 1
           before == Entries(reg.names, callbacks)
       IN  \E p \in Perms(hashmap_insert(before, name, f)) :
              /\ callbacks' = [i \in 1..Len(p) |-> p[i][2]]
              /\ reg' = [names |-> [i \in 1..Len(p) |-> p[i][1]],
                         made |-> f, op |-> "register", name |-> name, f |-> f,
                         res |-> TRUE, before |-> before]
    /\ UNCHANGED <<hubPc, hubQueue, hubOpen, hubSent, tracked, deadline_tasks,
                   sleepLeft, cbLog, invoked>>
    /\ UNCHANGED notReg
    /\ UNCHANGED <<graphVars, projVars, poolVars, execVars>>

\* unregister_callback(name): the other entries stay where they are
UnregisterCallback(name) ==
    /\ hubPc = "new"
    /\ LET before == Entries(reg.names, callbacks)
           r == hashmap_remove(before, name)
       IN  /\ callbacks' = without_name(callbacks, reg.names, name)
           /\ reg' = [reg EXCEPT !.names = without_name(reg.names, reg.names, name),
                                 !.op = "unregister", !.name = name, !.f = 0,
                                 !.res = r.res, !.before = before]
    /\ UNCHANGED <<hubPc, hubQueue, hubOpen, hubSent, tracked, deadline_tasks,
                   sleepLeft, cbLog, invoked>>
    /\ UNCHANGED notReg
    /\ UNCHANGED <<graphVars, projVars, poolVars, execVars>>

NextRegistry ==
    \/ \E name \in CallbackNames : RegisterNamed(name)
    \/ \E name \in CallbackNames : UnregisterCallback(name)
    \/ HubCallStart
    \/ \E id \in TaskIDs : HubEmitStarted(id)
    \/ \E id \in TaskIDs : HubEmitCompleted(id)
    \/ HubClose
    \/ HubStart

SpecRegistry == InitStart /\ [][NextRegistry]_vars

(***************************************************************************)
(* SpecHandlers: a TaskHandlerRegistry (task_handler.rs).  A task is its   *)
(* ID, the handler type words its title contains, and its priority.        *)
(***************************************************************************)
\* the type words of the handlers of test_advanced_types
TypeWords == {"Report", "Document"}

Priorities == {"Low", "Medium", "High"}

BasicTaskHandler_new(task_types) == [kind |-> "Basic", task_types |-> task_types, priority_levels |-> {}]
PriorityTaskHandler_new(priority_levels) == [kind |-> "Priority", task_types |-> {}, priority_levels |-> priority_levels]

\* the handlers registered: those of test_advanced_types, and two narrower ones
Handlers ==
    { BasicTaskHandler_new({"Report", "Document"}),
      PriorityTaskHandler_new({"High", "Medium"}),
      BasicTaskHandler_new({"Report"}),
      PriorityTaskHandler_new({"Low"}) }

\* the tasks given to execute_task
HandledTasks ==
    [id : {101, 103}, words : SUBSET TypeWords, priority : Priorities]

\* BasicTaskHandler::can_handle / PriorityTaskHandler::can_handle
can_handle(h, task) ==
    IF h.kind = "Basic"
    THEN \E t \in h.task_types : t \in task.words
    ELSE \E q \in h.priority_levels : q = task.priority

\* a variant of the search that gives the last handler that accepts
get_handler_for_task_last(handlers, task) ==
    IF \E i \in 1..Len(handlers) : can_handle(handlers[i], task)
    THEN CHOOSE i \in 1..Len(handlers) :
            /\ can_handle(handlers[i], task)
            /\ \A j \in (i + 1)..Len(handlers) : ~can_handle(handlers[j], task)
    ELSE 0

\* self.handlers.iter().find(|h| h.can_handle(task)): the position of the
\* handler found, or 0 for None
get_handler_for_task(handlers, task) ==
    IF \E i \in 1..Len(handlers) : can_handle(handlers[i], task)
    THEN CHOOSE i \in 1..Len(handlers) :
            /\ can_handle(handlers[i], task)
            /\ \A j \in 1..(i - 1) : ~can_handle(handlers[j], task)
    ELSE 0

\* TaskHandlerRegistry::execute_task: [ran, res], ran the positions of the
\* handlers whose execute was called; both handlers' execute return Ok(())
registry_execute_task(handlers, task) ==
    LET i == get_handler_for_task(handlers, task)
    IN  IF i # 0 THEN [ran |-> <<i>>, res |-> "Ok"]
        ELSE [ran |-> <<>>, res |-> "InvalidOperation"]

\* registry.register_handler(Box::new(h))
RegisterHandler(h) ==
    /\ Len(hreg.handlers) < MaxHandlers
    /\ hreg' = [handlers |-> Append(hreg.handlers, h), op |-> "register_handler",
                task |-> NoHandled, ran |-> <<>>, res |-> "none"]
    /\ UNCHANGED notHand
    /\ UNCHANGED <<graphVars, projVars, poolVars, execVars, hubVars>>

\* registry.execute_task(&task)
RegistryExecuteTask(task) ==
    /\ LET r == registry_execute_task(hreg.handlers, task)
       IN  hreg' = [hreg EXCEPT !.op = "execute_task", !.task = task,
                                !.ran = r.ran, !.res = r.res]
    /\ UNCHANGED notHand
    /\ UNCHANGED <<graphVars, projVars, poolVars, execVars, hubVars>>

NextHandlers ==
    \/ \E h \in Handlers : RegisterHandler(h)
    \/ \E task \in HandledTasks : RegistryExecuteTask(task)

SpecHandlers == Init /\ [][NextHandlers]_vars

(***************************************************************************)
(* SpecResubmit: the executors with callers that submit an ID only while   *)
(* it has no running record: the ID was never submitted, or its unit of    *)
(* work has completed, or it was evicted by cancel_task or check_timeouts. *)
(***************************************************************************)
\* execute_task(id) of an ID that is not recorded as running
ResubmitExecuteTask(id) ==
    /\ id \notin DOMAIN running
    /\ ExecuteTaskInsert(id)

ResubmitAsyncExecuteTask(id) ==
    /\ id \notin DOMAIN running
    /\ AsyncExecuteTaskInsert(id)

NextResubmit ==
    \/ \E id \in TaskIDs : ResubmitExecuteTask(id)
    \/ ExecuteTaskDispatch
    \/ \E w \in Workers : WorkerLock(w)
    \/ \E w \in Workers : WorkerRecv(w)
    \/ \E w \in Workers : WorkerRunExec(w)
    \/ \E w \in Workers : WorkerSend(w)
    \/ \E id \in TaskIDs : CancelTask(id)
    \/ CheckTimeouts
    \/ \E id \in TaskIDs : ResubmitAsyncExecuteTask(id)
    \/ AsyncExecuteTaskSpawn
    \/ BodyComplete
    \/ BodySendCompleted
    \/ NextEvent
    \/ Tick

SpecResubmit == InitExec /\ [][NextResubmit]_vars

(***************************************************************************)
(* Properties of the executors.                                            *)
(***************************************************************************)
\* the published result of id (synchronous executor) or its Completed event
\* (asynchronous executor) can be observed
ResultObservable(id) ==
    \/ \E i \in 1..Len(Published) : Published[i].task_id = id
    \/ \E i \in 1..Len(events) : events[i] = Completed(id)
    \/ \E i \in 1..Len(delivered) : delivered[i] = Completed(id)

\* the units of work of id that have started and have not yet removed the ID
\* from the running index
InFlight(id) ==
    Cardinality({ w \in Workers : wk[w].pc = "run" /\ wk[w].job.id = id })
    + SumOver(bodies, { b \in BagToSet(bodies) : b.id = id /\ b.pc = "sleep" })

\* the jobs and units of work dispatched so far for id
NumDispatched(id) ==
    submitted[<<id, "Exec">>]
    + SumOver(bodies, { b \in BagToSet(bodies) : b.id = id })
    + Cardinality({ i \in 1..Len(events) : events[i] = Completed(id) })
    + Cardinality({ i \in 1..Len(delivered) : delivered[i] = Completed(id) })

\* the execute_task calls for id that have made their insert and have not
\* yet dispatched the job
PendingCalls(id) == CopiesIn(id, calls)

\* C9: in both executors the ID is put in the running index before its job
\* is dispatched: every job dispatched belongs to an execute_task call that
\* made its insert first, and in the synchronous executor, whose caller does
\* nothing else in between, the record of an ID submitted once is still
\* there when the job is about to be dispatched.  For an ID submitted once,
\* whenever its JobResult or Completed event can be observed the ID is no
\* longer in the running index (is_task_running(id) is false).
C9_RemovedBeforeResult ==
    \A id \in TaskIDs :
        /\ NumDispatched(id) + PendingCalls(id) = execCalls[id]
        /\ execCalls[id] = 1 =>
            /\ (mode = "sync" /\ PendingCalls(id) = 1) => id \in DOMAIN running
            /\ ResultObservable(id) => id \notin DOMAIN running

\* a task ID submitted once whose result or Completed event can be observed
C9_Witness ==
    \E id \in TaskIDs :
        /\ execCalls[id] = 1
        /\ ResultObservable(id)
        /\ id \notin DOMAIN running

\* C10: each task ID has at most one execution in flight at a time, and the
\* running index never holds two records for the same ID (the index is a
\* map from IDs, so it holds at most one record per ID by construction).
C10_OneExecutionPerId ==
    \A id \in TaskIDs : InFlight(id) <= 1

\* C11: check_timeouts (both executors) returns exactly the IDs of the
\* running index whose elapsed time is strictly greater than the timeout,
\* removes exactly those entries and leaves every other entry as it was, so
\* an ID it returns is not running right after the call; and an ID enters
\* the running index only by an execute_task call, so one execution of a
\* task is returned by no more than one check_timeouts call.
C11_CheckTimeoutsExact ==
    [][/\ execRes'.op = "check_timeouts" =>
            /\ execRes'.ids = { id \in DOMAIN running : running[id] > TimeoutSecs }
            /\ DOMAIN running' = DOMAIN running \ execRes'.ids
            /\ \A id \in DOMAIN running' : running'[id] = running[id]
       /\ \A id \in TaskIDs :
            (id \notin DOMAIN running /\ id \in DOMAIN running')
                => execCalls'[id] = execCalls[id] + 1]_vars

\* check_timeouts has just returned an ID whose unit of work is still in
\* flight, and has left another ID in the running index
C11_Witness ==
    /\ execRes.op = "check_timeouts"
    /\ \E id \in execRes.ids : InFlight(id) >= 1 /\ id \notin DOMAIN running
    /\ DOMAIN running # {}

\* the JobResults (synchronous executor) and Completed events (asynchronous
\* executor) published so far for id
NumResults(id) ==
    Cardinality({ i \in 1..Len(Published) : Published[i].task_id = id })
    + Cardinality({ i \in 1..Len(events) : events[i] = Completed(id) })
    + Cardinality({ i \in 1..Len(delivered) : delivered[i] = Completed(id) })

\* C12: cancel_task and the eviction of check_timeouts are bookkeeping only:
\* they leave the dispatched unit of work alone, so every job dispatched for
\* an ID still publishes its JobResult (synchronous executor) or its
\* Completed event (asynchronous executor), whatever cancel_task and
\* check_timeouts calls are made meanwhile.  The execute_task calls of a
\* behaviour being finitely many, this says that from some point on every
\* job dispatched has its result published.
C12_ResultAfterCancel ==
    <>[](\A id \in TaskIDs : NumResults(id) = NumDispatched(id))

\* an ID submitted once that has left the running index while its unit of
\* work is still asleep, that is by cancel_task or check_timeouts
C12_Witness ==
    \E id \in TaskIDs :
        /\ execCalls[id] = 1
        /\ InFlight(id) = 1
        /\ id \notin DOMAIN running

\* C13: cancel_task(id) (both executors) returns Ok and removes id from the
\* running index when id is present; when id is absent it returns
\* TaskNotFound and leaves the running index as it was.  In neither case
\* does it touch the job queue, the workers, the result stream, the spawned
\* units of work or the event channel.
C13_CancelTask ==
    [][execRes'.op = "cancel_task" =>
        /\ execRes'.id \in DOMAIN running =>
            /\ execRes'.res = "Ok"
            /\ DOMAIN running' = DOMAIN running \ {execRes'.id}
            /\ \A k \in DOMAIN running' : running'[k] = running[k]
        /\ execRes'.id \notin DOMAIN running =>
            /\ execRes'.res = "TaskNotFound"
            /\ running' = running
        /\ UNCHANGED <<queue, wk, results, taken, bodies, events, delivered>>]_vars

\* cancel_task has just returned Ok for an ID whose job is still queued or
\* whose Started event is still in the channel
C13_Witness ==
    /\ execRes.op = "cancel_task"
    /\ execRes.res = "Ok"
    /\ execRes.id \notin DOMAIN running
    /\ \/ \E i \in 1..Len(queue) : queue[i].id = execRes.id
       \/ \E i \in 1..Len(events) : events[i] = Started(execRes.id)

\* every TaskEvent sent on the executor's channel so far, in the order in
\* which a reader of the stream gets them
Emitted == delivered \o events

\* the number of events equal to ev among the first n of seq
CountUpTo(seq, n, ev) == Cardinality({ i \in 1..n : seq[i] = ev })

\* C14: on the asynchronous executor's event stream the Started event of an
\* execution is enqueued before its Completed event, in every interleaving
\* of the task bodies: at every point of the stream the Completed events of
\* an ID read so far are no more than its Started events read so far, so a
\* reader never gets a terminal event of a task before its Started event.
C14_StartedBeforeCompleted ==
    \A id \in TaskIDs : \A n \in 1..Len(Emitted) :
        CountUpTo(Emitted, n, Completed(id)) <= CountUpTo(Emitted, n, Started(id))

\* a reader has got the Completed event of one task while events of two
\* executions were on the stream
C14_Witness ==
    /\ mode = "async"
    /\ \E i \in 1..Len(delivered) : delivered[i].type = "Completed"
    /\ Len(Emitted) >= 3

\* the number of events equal to ev sent so far
NumEmitted(ev) == CountUpTo(Emitted, Len(Emitted), ev)

\* the spawned units of work of id that have not yet sent their Completed
NumBodies(id) == SumOver(bodies, { b \in BagToSet(bodies) : b.id = id })

\* every execute_task call has its Started event on the stream or is still
\* at its send, and every Started event has its Completed event on the
\* stream or its unit of work still under way
NoEventLost ==
    \A id \in TaskIDs :
        /\ NumEmitted(Started(id)) + PendingCalls(id) = execCalls[id]
        /\ NumEmitted(Completed(id)) + NumBodies(id) = NumEmitted(Started(id))

\* every execute_task call made has both its events on the stream
AllEmitted ==
    \A id \in TaskIDs :
        /\ NumEmitted(Started(id)) = execCalls[id]
        /\ NumEmitted(Completed(id)) = execCalls[id]

\* C16: the event channel of the asynchronous executor never holds more
\* than channel_capacity events; a sender that finds it full (execute_task
\* with its Started event, a task body with its Completed event) waits with
\* its event instead of dropping or overwriting one, and enqueues it once
\* the reader has taken an event: no Started or Completed event is lost, and
\* with a reader that keeps reading all of them reach the stream.
C16_Backpressure ==
    /\ [](Len(events) <= ChannelCapacity /\ NoEventLost)
    /\ <>[]AllEmitted

\* the channel is full and a sender is waiting with its event
C16_Witness ==
    /\ Len(events) = ChannelCapacity
    /\ \/ calls # EmptyBag
       \/ \E b \in BagToSet(bodies) : b.pc = "send"


(***************************************************************************)
(* Properties of the notification hub.                                     *)
(***************************************************************************)
\* the terminal events of a task's lifecycle
TerminalTypes == {"Completed", "Failed", "Timeout", "Terminated"}

\* how many times callback c has been called with event ev
NumCalledWith(c, ev) == Cardinality({ i \in 1..Len(cbLog[c]) : cbLog[c][i] = ev })

\* how many terminal events of task id callback c has been called with
NumTerminal(c, id) ==
    Cardinality({ i \in 1..Len(cbLog[c]) :
                    cbLog[c][i].task_id = id /\ cbLog[c][i].type \in TerminalTypes })

\* C15: for every task executed once, the events delivered to the hub's
\* callbacks (the events read from the stream and the synthetic Timeout
\* events of start_with_deadlines) hold exactly one terminal event after
\* Started: no callback receives two terminal events, such as a Timeout and
\* a Completed, for the same task.
C15_OneTerminalEvent ==
    \A c \in Callbacks : \A id \in TaskIDs : NumTerminal(c, id) <= 1

\* C17: in the set-up of test_async, every Started and every Completed
\* event emitted by AsyncTaskExecutor::execute_task is eventually delivered
\* to every callback registered on the NotificationSystem: from some point
\* on each callback has been called with each of these events as many times
\* as the event was emitted.
C17_EventsReachHub ==
    <>[](\A c \in Callbacks : \A id \in TaskIDs :
            /\ NumCalledWith(c, Started(id)) = NumEmitted(Started(id))
            /\ NumCalledWith(c, Completed(id)) = NumEmitted(Completed(id)))

\* what callback c has been or will be called with, if nothing more is
\* sent: the events it was called with, then the events waiting in the
\* hub's channel
Stream(c) == cbLog[c] \o hubQueue

\* C21: start() hands the stream to every registered callback one event at
\* a time, in stream order, each event exactly once: a step leaves, for
\* every registered callback, its calls followed by the waiting events
\* as they were, or adds one event at the end (a send); the loop ends only
\* on a closed and drained channel, with every callback called with the
\* same events, and on a closed channel the loop does end (start returns
\* Ok).
C21_StartDeliversEachEventOnce ==
    /\ [][\A c \in SeqToSet(callbacks) :
            \/ Stream(c)' = Stream(c)
            \/ /\ Len(Stream(c)') = Len(Stream(c)) + 1
               /\ SubSeq(Stream(c)', 1, Len(Stream(c))) = Stream(c)
               /\ Len(hubQueue') = Len(hubQueue) + 1
               /\ cbLog'[c] = cbLog[c]]_vars
    /\ [](hubPc = "stopped" =>
            /\ ~hubOpen
            /\ hubQueue = <<>>
            /\ \A c \in SeqToSet(callbacks) : \A b \in SeqToSet(callbacks) :
                  cbLog[c] = cbLog[b])
    /\ (hubPc = "start" /\ ~hubOpen) ~> (hubPc = "stopped")

\* start() has returned after calling two callbacks with two events each
C21_Witness ==
    /\ hubPc = "stopped"
    /\ Len(callbacks) >= 2
    /\ \A c \in SeqToSet(callbacks) : Len(cbLog[c]) >= 2

\* C22: for each event the hub calls the callbacks in the order of their
\* registration: the callbacks called with the latest event are in
\* ascending order of registration.
C22_RegistrationOrder ==
    \A i \in 1..Len(invoked) : \A j \in 1..Len(invoked) :
        i < j => invoked[i] < invoked[j]

\* C18: in start_with_deadlines, for every tracked task for which no
\* Completed event is received before its deadline (the task is still in
\* deadline_tasks when its deadline is reached), exactly one synthetic
\* Timeout event is eventually delivered to every registered callback.
C18_TimeoutDelivered ==
    \A id \in TaskIDs :
        (hubPc = "deadlines" /\ id \in DOMAIN deadline_tasks /\ deadline_tasks[id] = 0)
            ~> (\A c \in Callbacks : NumCalledWith(c, Timeout(id)) = 1)

\* C19: in start_with_deadlines, once the loop has received a Completed
\* event for a tracked task whose deadline it had not yet found expired,
\* the task is out of deadline_tasks and no callback is ever called with a
\* synthetic Timeout event for it.
C19_CompletedSuppressesTimeout ==
    \A c \in Callbacks : \A id \in TaskIDs :
        /\ \A i \in 1..Len(cbLog[c]) : \A j \in 1..Len(cbLog[c]) :
              (i < j /\ cbLog[c][i] = Completed(id)) => cbLog[c][j] # Timeout(id)
        /\ NumCalledWith(c, Completed(id)) > 0 => id \notin DOMAIN deadline_tasks

\* the loop has received the Completed event of a tracked task that it had
\* not reported, and has gone through a deadline check since
C19_Witness ==
    \E id \in tracked : \E c \in Callbacks :
        /\ NumCalledWith(c, Completed(id)) = 1
        /\ NumCalledWith(c, Timeout(id)) = 0
        /\ \E j \in 1..Len(cbLog[c]) : \E i \in 1..Len(cbLog[c]) :
              i < j /\ cbLog[c][i] = Completed(id) /\ cbLog[c][j].type = "Timeout"

\* C20: start_with_deadlines terminates: once the event stream is closed
\* and drained and no tracked deadline remains, the loop exits and the call
\* returns Ok.
C20_LoopTerminates ==
    (hubPc = "deadlines" /\ ~hubOpen /\ hubQueue = <<>> /\ DOMAIN deadline_tasks = {})
        ~> (hubPc = "stopped")

\* C38: in start_with_deadlines, when from some point on an event is
\* waiting on the stream at every turn of the loop, a tracked task whose
\* deadline has passed is still reported by the deadline check in the end
\* (and with that taken out of deadline_tasks).
C38_DeadlineNotStarved ==
    \A id \in TaskIDs :
        <>[](hubPc = "deadlines" /\ hubQueue # <<>>)
            => ((id \in DOMAIN deadline_tasks /\ deadline_tasks[id] = 0)
                   ~> (id \notin DOMAIN deadline_tasks))

(***************************************************************************)
(* Recurrence engine (periodic_tasks.rs).  Times are in seconds.  A u32 is *)
(* kept as two 16-bit halves [hi, lo], so that the arithmetic on task IDs  *)
(* has the width it has in the code.                                       *)
(***************************************************************************)
Half == 256 * 256

\* the u32 n
U32(n) == [hi |-> n \div Half, lo |-> n % Half]

\* template_id * 1000 + occurrences as a number, in three halves: top is
\* what does not fit in 32 bits
occurrence_id_exact(template_id, occurrences) ==
    LET low  == template_id.lo * 1000 + occurrences
        high == template_id.hi * 1000 + (low \div Half)
    IN  [top |-> high \div Half, hi |-> high % Half, lo |-> low % Half]

\* `self.template.id * 1000 + self.occurrences` in u32: what the expression
\* can give.  When the result does not fit, a build with overflow checks
\* panics and a build without them keeps the low 32 bits.
occurrence_id(template_id, occurrences) ==
    LET x == occurrence_id_exact(template_id, occurrences)
    IN  IF x.top = 0 THEN {[kind |-> "value", id |-> [hi |-> x.hi, lo |-> x.lo]]}
        ELSE {[kind |-> "panic", id |-> U32(0)],
              [kind |-> "value", id |-> [hi |-> x.hi, lo |-> x.lo]]}

\* RecurrencePattern; Custom carries its duration
Daily == [kind |-> "Daily", secs |-> 0]
Weekly == [kind |-> "Weekly", secs |-> 0]
Monthly == [kind |-> "Monthly", secs |-> 0]
Custom(secs) == [kind |-> "Custom", secs |-> secs]

\* the interval of the backup task of test_periodic_tasks, which is also
\* the step of the clock
HalfDaySecs == 12 * 60 * 60

Patterns == {Daily, Weekly, Monthly, Custom(HalfDaySecs)}

\* the `duration` of get_next_occurrence
pattern_duration(pattern) ==
    CASE pattern.kind = "Daily" -> 24 * 60 * 60
      [] pattern.kind = "Weekly" -> 7 * 24 * 60 * 60
      [] pattern.kind = "Monthly" -> 30 * 24 * 60 * 60
      [] OTHER -> pattern.secs

get_next_occurrence(pattern, current) == current + pattern_duration(pattern)

\* the template tasks: the weekly report of test_periodic_tasks, and a task
\* with the smallest ID whose thousandfold does not fit in a u32
Templates ==
    { [id |-> U32(100), status |-> "ToDo", priority |-> "Medium"],
      [id |-> U32(4294968), status |-> "InProgress", priority |-> "High"] }

PeriodicIDs == 1..MaxPeriodic

NoneTime == [some |-> FALSE, at |-> 0]
SomeTime(t) == [some |-> TRUE, at |-> t]

\* PeriodicTask::new(id, template, pattern) at time now
PeriodicTask_new(id, template, pattern, now) ==
    [id |-> id, template |-> template, pattern |-> pattern,
     last_run |-> NoneTime,
     next_run |-> get_next_occurrence(pattern, now),
     occurrences |-> 0]

is_due(pt, now) == now >= pt.next_run

\* no Task
NoTask == [id |-> U32(0), status |-> "none", priority |-> "none", occurrence |-> 0]

\* PeriodicTask::generate_task at time now: the set of [pt, res, task] it
\* can end in.  The fields are written first; the ID is computed after.
generate_task(pt, now) ==
    LET updated == [pt EXCEPT !.last_run = SomeTime(now),
                              !.next_run = get_next_occurrence(pt.pattern, now),
                              !.occurrences = @ + 1]
    IN  { [pt |-> updated,
           res |-> IF o.kind = "panic" THEN "panic" ELSE "Ok",
           task |-> IF o.kind = "panic" THEN NoTask
                    ELSE [id |-> o.id, status |-> pt.template.status,
                          priority |-> pt.template.priority,
                          occurrence |-> updated.occurrences]] :
          o \in occurrence_id(pt.template.id, updated.occurrences) }

\* the scheduler can be called: no call is under way and none has panicked
SchedIdle == gen.pc = 0 /\ gen.res # "panic"

\* scheduler.add_task(PeriodicTask::new(id, template, pattern)); the
\* periodic tasks are numbered in the order of their insertion, as in
\* test_periodic_tasks
PeriodicAdd(template, pattern) ==
    /\ SchedIdle
    /\ Len(sched) < MaxPeriodic
    /\ sched' = Append(sched, PeriodicTask_new(Len(sched) + 1, template, pattern, clock))
    /\ gen' = NoGen
    /\ UNCHANGED <<clock, notPer>>
    /\ UNCHANGED <<graphVars, projVars, poolVars, execVars, hubVars>>

\* test_periodic_tasks: the first periodic task is made and added
NewPeriodicTask(template, pattern) ==
    /\ sched = <<>>
    /\ PeriodicAdd(template, pattern)

\* the position of the first periodic task with that ID, or 0
position(tasks, id) ==
    IF \E i \in 1..Len(tasks) : tasks[i].id = id
    THEN CHOOSE i \in 1..Len(tasks) :
            tasks[i].id = id /\ \A j \in 1..(i - 1) : tasks[j].id # id
    ELSE 0

\* half a day passes, also while generate_due_tasks is under way
ClockStep ==
    /\ gen.res # "panic"
    /\ clock < MaxClockSteps * HalfDaySecs
    /\ clock' = clock + HalfDaySecs
    /\ gen' = IF gen.pc = 0 THEN NoGen ELSE gen
    /\ UNCHANGED <<sched, notPer>>
    /\ UNCHANGED <<graphVars, projVars, poolVars, execVars, hubVars>>

\* get_task_mut(id) and generate_task() on the task found
GenerateTask(id) ==
    /\ SchedIdle
    /\ position(sched, id) # 0
    /\ LET i == position(sched, id)
       IN  /\ sched[i].occurrences < MaxOccurrences
           /\ \E o \in generate_task(sched[i], clock) :
                /\ sched' = [sched EXCEPT ![i] = o.pt]
                /\ gen' = [op |-> "generate_task", pc |-> 0, before |-> sched,
                           nows |-> <<clock>>, idx |-> <<i>>,
                           res |-> o.res,
                           tasks |-> IF o.res = "Ok" THEN <<o.task>> ELSE <<>>]
    /\ UNCHANGED <<clock, notPer>>
    /\ UNCHANGED <<graphVars, projVars, poolVars, execVars, hubVars>>

\* generate_due_tasks is called: `generated` is empty and the iterator is
\* at the first periodic task
GenerateDueBegin ==
    /\ SchedIdle
    /\ gen' = [op |-> "generate_due_tasks", pc |-> 1, before |-> sched,
               nows |-> <<>>, idx |-> <<>>, res |-> "none", tasks |-> <<>>]
    /\ UNCHANGED <<sched, clock, notPer>>
    /\ UNCHANGED <<graphVars, projVars, poolVars, execVars, hubVars>>

\* a variant of the filter that lets every task through
is_due_always(pt, now) == TRUE

\* the filter of generate_due_tasks
due_filter(pt, now) == is_due(pt, now)

\* generate_due_tasks, one turn of the iterator: the next periodic task is
\* passed over, or, if it is due, generated and pushed to `generated`; after
\* the last one the call returns `generated`
GenerateDueNext ==
    /\ gen.op = "generate_due_tasks"
    /\ gen.pc # 0
    /\ IF gen.pc > Len(sched)
       THEN /\ gen' = [gen EXCEPT !.pc = 0, !.res = "Ok"]
            /\ UNCHANGED sched
       ELSE IF due_filter(sched[gen.pc], clock)
       THEN \E o \in generate_task(sched[gen.pc], clock) :
                /\ sched' = [sched EXCEPT ![gen.pc] = o.pt]
                /\ gen' = IF o.res = "panic"
                          THEN [gen EXCEPT !.pc = 0, !.res = "panic",
                                           !.nows = Append(@, clock),
                                           !.tasks = <<>>]
                          ELSE [gen EXCEPT !.pc = @ + 1,
                                           !.nows = Append(@, clock),
                                           !.idx = Append(@, gen.pc),
                                           !.tasks = Append(@, o.task)]
       ELSE /\ gen' = [gen EXCEPT !.pc = @ + 1, !.nows = Append(@, clock)]
            /\ UNCHANGED sched
    /\ UNCHANGED <<clock, notPer>>
    /\ UNCHANGED <<graphVars, projVars, poolVars, execVars, hubVars>>

(***************************************************************************)
(* SpecPeriodic: one PeriodicTask of any template and pattern, generated   *)
(* from as time passes.                                                    *)
(***************************************************************************)
NextPeriodic ==
    \/ \E template \in Templates, pattern \in Patterns :
          NewPeriodicTask(template, pattern)
    \/ ClockStep
    \/ \E id \in PeriodicIDs : GenerateTask(id)

SpecPeriodic == Init /\ [][NextPeriodic]_vars

\* the patterns of the scheduler's tasks whose next run comes within the
\* steps of the clock
SchedPatterns == {Daily, Custom(HalfDaySecs)}

(***************************************************************************)
(* SpecSched: a PeriodicTaskScheduler to which periodic tasks are added    *)
(* and whose due tasks are generated as time passes.                       *)
(***************************************************************************)
NextSched ==
    \/ \E template \in Templates, pattern \in SchedPatterns :
          PeriodicAdd(template, pattern)
    \/ ClockStep
    \/ GenerateDueBegin
    \/ GenerateDueNext

SpecSched == Init /\ [][NextSched]_vars

(***************************************************************************)
(* SpecIds: the task IDs of generations.  A scheduler holds two periodic   *)
(* tasks, each with a template ID and a number of generations behind it;   *)
(* tasks are generated from them and kept, with the position of the        *)
(* periodic task each one comes from.                                      *)
(***************************************************************************)
\* the factor of `self.template.id * 1000 + self.occurrences`
IdFactor == 1000

\* templates with neighbouring IDs, and one whose ID times 1000 does not
\* fit in a u32
IdTemplates ==
    { [id |-> U32(1), status |-> "ToDo", priority |-> "Medium"],
      [id |-> U32(2), status |-> "ToDo", priority |-> "Medium"],
      [id |-> U32(4294968), status |-> "ToDo", priority |-> "Medium"] }

\* the generations a periodic task has behind it
OccurrencesBefore == {0, IdFactor}

\* PeriodicTask::new(id, template, Daily) after n generations at time 0
PeriodicTask_after(id, template, n) ==
    [PeriodicTask_new(id, template, Daily, 0) EXCEPT
        !.occurrences = n,
        !.last_run = IF n = 0 THEN NoneTime ELSE SomeTime(0)]

InitIds ==
    /\ graph = NewGraph
    /\ nCalls = 0
    /\ lastCall = NoCall
    /\ lastOrder = NoOrder
    /\ lastMet = NoMet
    /\ \E a \in IdTemplates, b \in IdTemplates :
       \E m \in OccurrencesBefore, n \in OccurrencesBefore :
          sched = <<PeriodicTask_after(1, a, m), PeriodicTask_after(2, b, n)>>
    /\ clock = 0
    /\ gen = NoGen
    /\ cache = NewCache
    /\ cacheLock = 0
    /\ cacheRes = NoCacheRes
    /\ runLock = 0
    /\ caller = NoCaller
    /\ coll = NoCollect
    /\ reg = NoReg
    /\ hreg = NewRegistry
    /\ project = ProjectInit
    /\ nProjCalls = 0
    /\ projRes = NoProjCall
    /\ PoolInit
    /\ NoExecutor
    /\ NoHub

\* get_task_mut(id) and generate_task() on the task found; the caller keeps
\* the task returned beside those of the calls before
GenerateKept(id) ==
    /\ SchedIdle
    /\ position(sched, id) # 0
    /\ Len(gen.idx) < MaxGenerated
    /\ LET i == position(sched, id)
       IN  \E o \in generate_task(sched[i], clock) :
              /\ sched' = [sched EXCEPT ![i] = o.pt]
              /\ gen' = [gen EXCEPT !.op = "generations",
                                    !.nows = Append(@, clock),
                                    !.idx = Append(@, i),
                                    !.res = o.res,
                                    !.tasks = IF o.res = "Ok" THEN Append(@, o.task) ELSE @]
    /\ UNCHANGED <<clock, notPer>>
    /\ UNCHANGED <<graphVars, projVars, poolVars, execVars, hubVars>>

NextIds ==
    \/ \E id \in PeriodicIDs : GenerateKept(id)

SpecIds == InitIds /\ [][NextIds]_vars

(***************************************************************************)
(* Bounded cache (optimizations.rs).  An entry is [val, age]: the value    *)
(* and the seconds since its insertion (timestamp.elapsed()), counted up   *)
(* to the TTL.  The threads share one GlobalCache; TaskCache's methods     *)
(* are run by the thread that holds its Mutex.                             *)
(***************************************************************************)
CacheThreads == {1, 2}

\* project IDs looked up
CacheProjects == {1, 2}

\* (project ID, task ID) looked up
CacheTasks == {<<1, 1>>}

\* the versions of a project or task record
CacheVals == {1, 2}

\* the entry of key k of map m, as [present, val, age]
entry_of(m, k) ==
    IF k \in DOMAIN m THEN [present |-> TRUE, val |-> m[k].val, age |-> m[k].age]
    ELSE NoEntry

\* HashMap::insert(k, (v, Instant::now()))
cache_insert(m, k, v) ==
    [x \in (DOMAIN m) \cup {k} |-> IF x = k THEN [val |-> v, age |-> 0] ELSE m[x]]

\* HashMap::remove(&k)
cache_remove(m, k) == [x \in (DOMAIN m) \ {k} |-> m[x]]

\* a variant of the test of get_project and get_task that lets an entry of
\* the age of the TTL through
fresh_at_ttl(age) == age <= TtlSecs

\* timestamp.elapsed() < self.ttl
fresh(age) == age < TtlSecs

\* get_project / get_task on map m: [map, some, val]
cache_get(m, k) ==
    IF k \in DOMAIN m
    THEN IF fresh(m[k].age)
         THEN [map |-> m, some |-> TRUE, val |-> m[k].val]
         ELSE [map |-> cache_remove(m, k), some |-> FALSE, val |-> 0]
    ELSE [map |-> m, some |-> FALSE, val |-> 0]

\* a variant of the filter of cleanup_expired that keeps an entry of the
\* age of the TTL
expired_keys_past_ttl(m) == {k \in DOMAIN m : m[k].age > TtlSecs}

\* the keys of m whose entries cleanup_expired removes:
\* timestamp.elapsed() >= self.ttl
expired_keys(m) == {k \in DOMAIN m : m[k].age >= TtlSecs}

\* the oldest age told apart: a second past the TTL
MaxAge == TtlSecs + 1

\* self.inner.lock(): the thread waits until the Mutex is free
CacheLock(th) ==
    /\ cacheLock = 0
    /\ cacheLock' = th
    /\ UNCHANGED <<cache, cacheRes, notCache>>
    /\ UNCHANGED <<graphVars, projVars, poolVars, execVars, hubVars>>

\* GlobalCache::add_project, from the lock taken to the guard dropped
CacheAddProject(th) ==
    /\ cacheLock = th
    /\ \E id \in CacheProjects, v \in CacheVals :
          /\ cache' = [cache EXCEPT !.projects = cache_insert(@, id, v)]
          /\ cacheRes' = [op |-> "add_project", key |-> id,
                          before |-> entry_of(cache.projects, id),
                          some |-> FALSE, val |-> v,
                          swept |-> NoCacheRes.swept]
    /\ cacheLock' = 0
    /\ UNCHANGED notCache
    /\ UNCHANGED <<graphVars, projVars, poolVars, execVars, hubVars>>

\* GlobalCache::get_project, from the lock taken to the guard dropped
CacheGetProject(th) ==
    /\ cacheLock = th
    /\ \E id \in CacheProjects :
          LET r == cache_get(cache.projects, id)
          IN  /\ cache' = [cache EXCEPT !.projects = r.map]
              /\ cacheRes' = [op |-> "get_project", key |-> id,
                              before |-> entry_of(cache.projects, id),
                              some |-> r.some, val |-> r.val,
                              swept |-> NoCacheRes.swept]
    /\ cacheLock' = 0
    /\ UNCHANGED notCache
    /\ UNCHANGED <<graphVars, projVars, poolVars, execVars, hubVars>>

\* TaskCache::add_task by the holder of the Mutex
CacheAddTask(th) ==
    /\ cacheLock = th
    /\ \E key \in CacheTasks, v \in CacheVals :
          /\ cache' = [cache EXCEPT !.tasks = cache_insert(@, key, v)]
          /\ cacheRes' = [op |-> "add_task", key |-> key,
                          before |-> entry_of(cache.tasks, key),
                          some |-> FALSE, val |-> v,
                          swept |-> NoCacheRes.swept]
    /\ cacheLock' = 0
    /\ UNCHANGED notCache
    /\ UNCHANGED <<graphVars, projVars, poolVars, execVars, hubVars>>

\* TaskCache::get_task by the holder of the Mutex
CacheGetTask(th) ==
    /\ cacheLock = th
    /\ \E key \in CacheTasks :
          LET r == cache_get(cache.tasks, key)
          IN  /\ cache' = [cache EXCEPT !.tasks = r.map]
              /\ cacheRes' = [op |-> "get_task", key |-> key,
                              before |-> entry_of(cache.tasks, key),
                              some |-> r.some, val |-> r.val,
                              swept |-> NoCacheRes.swept]
    /\ cacheLock' = 0
    /\ UNCHANGED notCache
    /\ UNCHANGED <<graphVars, projVars, poolVars, execVars, hubVars>>

\* GlobalCache::clear, from the lock taken to the guard dropped
CacheClear(th) ==
    /\ cacheLock = th
    /\ cache # NewCache
    /\ cache' = NewCache
    /\ cacheRes' = [NoCacheRes EXCEPT !.op = "clear"]
    /\ cacheLock' = 0
    /\ UNCHANGED notCache
    /\ UNCHANGED <<graphVars, projVars, poolVars, execVars, hubVars>>

\* TaskCache::cleanup_expired by the holder of the Mutex
CacheCleanupExpired(th) ==
    /\ cacheLock = th
    /\ cache' = [projects |-> [k \in (DOMAIN cache.projects) \ expired_keys(cache.projects)
                                  |-> cache.projects[k]],
                 tasks |-> [k \in (DOMAIN cache.tasks) \ expired_keys(cache.tasks)
                               |-> cache.tasks[k]]]
    /\ cacheRes' = [NoCacheRes EXCEPT !.op = "cleanup_expired", !.swept = cache]
    /\ cacheLock' = 0
    /\ UNCHANGED notCache
    /\ UNCHANGED <<graphVars, projVars, poolVars, execVars, hubVars>>

\* a second passes: every entry is a second older
CacheTick ==
    /\ \/ \E k \in DOMAIN cache.projects : cache.projects[k].age < MaxAge
       \/ \E key \in DOMAIN cache.tasks : cache.tasks[key].age < MaxAge
    /\ cache' = [projects |-> [k \in DOMAIN cache.projects |->
                     [cache.projects[k] EXCEPT !.age = IF @ < MaxAge THEN @ + 1 ELSE @]],
                 tasks |-> [k \in DOMAIN cache.tasks |->
                     [cache.tasks[k] EXCEPT !.age = IF @ < MaxAge THEN @ + 1 ELSE @]]]
    /\ cacheRes' = NoCacheRes
    /\ UNCHANGED <<cacheLock, notCache>>
    /\ UNCHANGED <<graphVars, projVars, poolVars, execVars, hubVars>>

NextCache ==
    \/ \E th \in CacheThreads : CacheLock(th)
    \/ \E th \in CacheThreads : CacheAddProject(th)
    \/ \E th \in CacheThreads : CacheGetProject(th)
    \/ \E th \in CacheThreads : CacheAddTask(th)
    \/ \E th \in CacheThreads : CacheGetTask(th)
    \/ \E th \in CacheThreads : CacheClear(th)
    \/ \E th \in CacheThreads : CacheCleanupExpired(th)
    \/ CacheTick

SpecCache == Init /\ [][NextCache]_vars

\* C36: an add_dependency(task, dep) call with task # dep, made on a graph
\* in which dep does not depend on task, returns Ok and records the edge,
\* also when task already depends on dep.
C36_LegalEdgeAccepted ==
    [][(/\ lastCall'.op = "add"
        /\ nCalls' = nCalls + 1
        /\ lastCall'.task # lastCall'.dep
        /\ ~DependsOn(graph, lastCall'.dep, lastCall'.task))
       => (/\ lastCall'.ok
           /\ <<lastCall'.task, lastCall'.dep>> \in Edges(graph'))]_vars

(***************************************************************************)
(* Properties of the recurrence engine.                                    *)
(***************************************************************************)
\* the durations of the patterns, in seconds
DaySecs == 86400
WeekSecs == 604800
MonthSecs == 2592000

\* C26: a generate_task call at time now returns a task and leaves the
\* periodic task with last_run = now, next_run = now plus the duration of
\* its pattern and one occurrence more; the task returned has the ID
\* template_id x 1000 + the new number of occurrences and the status and the
\* priority of the template; from the second generation on the ID differs
\* from that of the generation before.
C26_GenerateTask ==
    gen.op = "generate_task" =>
        LET i == gen.idx[1]
            now == gen.nows[1]
            old == gen.before[i]
            new == sched[i]
            x == occurrence_id_exact(old.template.id, old.occurrences + 1)
            prev == occurrence_id_exact(old.template.id, old.occurrences)
        IN  /\ new.last_run = SomeTime(now)
            /\ new.next_run = now +
                   (CASE old.pattern.kind = "Daily" -> DaySecs
                      [] old.pattern.kind = "Weekly" -> WeekSecs
                      [] old.pattern.kind = "Monthly" -> MonthSecs
                      [] OTHER -> old.pattern.secs)
            /\ new.occurrences = old.occurrences + 1
            /\ new.id = old.id /\ new.template = old.template /\ new.pattern = old.pattern
            /\ gen.res = "Ok"
            /\ Len(gen.tasks) = 1
            /\ x.top = 0
            /\ gen.tasks[1].id = [hi |-> x.hi, lo |-> x.lo]
            /\ gen.tasks[1].status = old.template.status
            /\ gen.tasks[1].priority = old.template.priority
            /\ gen.tasks[1].occurrence = old.occurrences + 1
            /\ old.occurrences >= 1 => gen.tasks[1].id # [hi |-> prev.hi, lo |-> prev.lo]

\* the same for the templates whose ID times 1000, plus the occurrences,
\* fits in a u32
C26_GenerateTaskSmallId ==
    (/\ gen.op = "generate_task"
     /\ occurrence_id_exact(gen.before[gen.idx[1]].template.id,
                            gen.before[gen.idx[1]].occurrences + 1).top = 0)
        => C26_GenerateTask

\* the periodic task `new` is what the generation step at time now makes of
\* `old`
Generated(old, new, now) ==
    /\ new.last_run = SomeTime(now)
    /\ new.next_run = now + pattern_duration(old.pattern)
    /\ new.occurrences = old.occurrences + 1
    /\ new.id = old.id /\ new.template = old.template /\ new.pattern = old.pattern

\* C27: generate_due_tasks neither adds nor removes a periodic task; when
\* it returns it has visited every periodic task once, in insertion order;
\* the tasks that were due when visited (now >= next_run) went through the
\* generation step once, the others are unchanged, and the batch returned
\* holds the task of each generation, in insertion order.
C27_GenerateDueTasks ==
    gen.op = "generate_due_tasks" =>
        /\ Len(sched) = Len(gen.before)
        /\ (gen.pc = 0 /\ gen.res = "Ok") =>
              /\ Len(gen.nows) = Len(sched)
              /\ \A i \in 1..Len(sched) :
                    IF gen.nows[i] >= gen.before[i].next_run
                    THEN /\ Generated(gen.before[i], sched[i], gen.nows[i])
                         /\ \E k \in 1..Len(gen.idx) : gen.idx[k] = i
                    ELSE /\ sched[i] = gen.before[i]
                         /\ \A k \in 1..Len(gen.idx) : gen.idx[k] # i
              /\ \A k \in 1..Len(gen.idx) : \A l \in 1..Len(gen.idx) :
                    k < l => gen.idx[k] < gen.idx[l]
              /\ Len(gen.tasks) = Len(gen.idx)
              /\ \A k \in 1..Len(gen.idx) :
                    /\ gen.tasks[k].occurrence = sched[gen.idx[k]].occurrences
                    /\ gen.tasks[k].status = sched[gen.idx[k]].template.status
                    /\ \E o \in occurrence_id(sched[gen.idx[k]].template.id,
                                              sched[gen.idx[k]].occurrences) :
                          o.kind = "value" /\ o.id = gen.tasks[k].id

\* generate_due_tasks has returned a batch of two tasks of different
\* templates and has passed over a periodic task that was not due
C27_Witness ==
    /\ gen.op = "generate_due_tasks"
    /\ gen.pc = 0
    /\ gen.res = "Ok"
    /\ Len(gen.tasks) = 2
    /\ gen.tasks[1].status # gen.tasks[2].status
    /\ Len(sched) = 3

(***************************************************************************)
(* Properties of the cache.                                                *)
(***************************************************************************)
\* the map a cache call was made on
MapOf(op) == IF op \in {"get_project", "add_project"} THEN cache.projects ELSE cache.tasks

\* C28: get_project and get_task return the value of the entry exactly when
\* the entry is there and younger than the TTL, and then leave it as it is;
\* on an entry as old as the TTL or older they return None and the entry is
\* gone afterwards; add_project and add_task leave the entry with the new
\* value and the age 0.  At most one thread holds the lock.
C28_NoExpiredValue ==
    /\ cacheLock \in CacheThreads \cup {0}
    /\ cacheRes.op \in {"get_project", "get_task"} =>
          LET b == cacheRes.before
              now == entry_of(MapOf(cacheRes.op), cacheRes.key)
          IN  /\ cacheRes.some <=> (b.present /\ b.age < TtlSecs)
              /\ cacheRes.some => (cacheRes.val = b.val /\ now = b)
              /\ ~cacheRes.some => ~now.present
    /\ cacheRes.op \in {"add_project", "add_task"} =>
          entry_of(MapOf(cacheRes.op), cacheRes.key)
              = [present |-> TRUE, val |-> cacheRes.val, age |-> 0]

\* get_project has returned None for a project whose entry had reached the
\* TTL, and the entry is gone
C28_Witness ==
    /\ cacheRes.op = "get_project"
    /\ cacheRes.before.present
    /\ cacheRes.before.age >= TtlSecs
    /\ ~cacheRes.some
    /\ cacheRes.key \notin DOMAIN cache.projects

\* the entries of map m that are younger than the TTL
Younger(m) == {k \in DOMAIN m : m[k].age < TtlSecs}

\* C34: cleanup_expired removes exactly the entries of both maps whose age
\* is the TTL or more and leaves the younger ones as they were, so that
\* an entry is removed by the sweep exactly when a get of it would have
\* returned None, and no such entry is left after the sweep.
C34_CleanupExpired ==
    cacheRes.op = "cleanup_expired" =>
        LET b == cacheRes.swept
        IN  /\ DOMAIN cache.projects = Younger(b.projects)
            /\ DOMAIN cache.tasks = Younger(b.tasks)
            /\ \A k \in DOMAIN cache.projects : cache.projects[k] = b.projects[k]
            /\ \A k \in DOMAIN cache.tasks : cache.tasks[k] = b.tasks[k]
            /\ \A k \in DOMAIN b.projects :
                  k \in DOMAIN cache.projects <=> cache_get(b.projects, k).some
            /\ \A k \in DOMAIN b.tasks :
                  k \in DOMAIN cache.tasks <=> cache_get(b.tasks, k).some
            /\ expired_keys(cache.projects) = {}
            /\ expired_keys(cache.tasks) = {}

\* a sweep has removed a project of exactly the age of the TTL and a task
\* older than that, and has kept a younger project
C34_Witness ==
    /\ cacheRes.op = "cleanup_expired"
    /\ \E k \in DOMAIN cacheRes.swept.projects :
          cacheRes.swept.projects[k].age = TtlSecs /\ k \notin DOMAIN cache.projects
    /\ \E k \in DOMAIN cacheRes.swept.tasks :
          cacheRes.swept.tasks[k].age > TtlSecs /\ k \notin DOMAIN cache.tasks
    /\ \E k \in DOMAIN cache.projects : cache.projects[k].age < TtlSecs

\* C37: a unit of work removes no running record but its own, also when
\* its ID was evicted by cancel_task or check_timeouts and submitted again
\* while it was in progress.  A unit of work that completes has slept
\* WorkSecs since its own record was made, so a record younger than
\* WorkSecs belongs to a later submission of the ID: such a record is taken
\* out only by cancel_task (it is too young for check_timeouts), never by
\* a step of a worker or of a spawned task.
C37_OwnRecordOnly ==
    [][\A id \in TaskIDs :
          (/\ id \in DOMAIN running
           /\ id \notin DOMAIN running'
           /\ running[id] < WorkSecs)
          => (wk' = wk /\ bodies' = bodies)]_vars

\* the template ID and the occurrence number of the k-th task kept
OriginOf(k) == <<sched[gen.idx[k]].template.id, gen.tasks[k].occurrence>>

\* C39: every generation gives a task ID (the product and the sum fit in
\* 32 bits, nothing wraps around), and two tasks generated from different
\* template IDs or with different occurrence numbers have different IDs.
C39_UniqueIds ==
    gen.op = "generations" =>
        /\ gen.res = "Ok"
        /\ \A k \in 1..Len(gen.tasks) :
              LET x == occurrence_id_exact(OriginOf(k)[1], OriginOf(k)[2])
              IN  x.top = 0 /\ gen.tasks[k].id = [hi |-> x.hi, lo |-> x.lo]
        /\ \A j \in 1..Len(gen.tasks) : \A k \in 1..Len(gen.tasks) :
              OriginOf(j) # OriginOf(k) => gen.tasks[j].id # gen.tasks[k].id

\* the same without the part on wrap-around: tasks of different origins
\* have different IDs
C39_NoCollision ==
    (gen.op = "generations" /\ gen.res = "Ok") =>
        \A j \in 1..Len(gen.tasks) : \A k \in 1..Len(gen.tasks) :
            OriginOf(j) # OriginOf(k) => gen.tasks[j].id # gen.tasks[k].id

(***************************************************************************)
(* Properties of the locks of the executor.                                *)
(***************************************************************************)
\* worker w is inside the handler of a job, before the handler's own
\* critical section
InHandler(w) == wk[w].pc = "run"

\* C31: a worker that executes a handler holds neither the lock of the
\* job queue nor the lock of the running index; the lock of the running
\* index is held by a worker only for the remove that ends its handler,
\* after the sleep, and by the caller only inside one method; so a method
\* of the caller waits for that remove at most, never for a job.
C31_NoLockAcrossJob ==
    /\ \A w \in Workers : InHandler(w) => (rxLock # w /\ runLock # w)
    /\ \A w \in Workers : runLock = w => (wk[w].pc = "remove" /\ wk[w].wake = 0)
    /\ \A w \in Workers : rxLock = w => wk[w].pc = "recv"
    /\ runLock = CallerThread <=> caller # NoCaller
    /\ runLock \in Workers \cup {0, CallerThread}

\* every worker is inside a handler that still sleeps, and the caller has
\* gone into a method and holds the lock of the running index
C31_Witness ==
    /\ \A w \in Workers : InHandler(w) /\ wk[w].wake > 0
    /\ runLock = CallerThread
    /\ caller.op \in {"cancel_task", "check_timeouts", "is_task_running"}

\* the results with task ID id that collect_results has returned
NumReturned(id) == Cardinality({ i \in 1..Len(taken) : taken[i].task_id = id })

\* C32: a collect_results call can always take its next turn; what it has
\* pushed so far is what has been received since it was called; when it
\* returns, its Vec begins with the results that were published and not
\* yet returned when it was called, in the order of their publication
\* (so it is empty only if there was none); and no more results of a task
\* are ever returned than the task was executed.
C32_CollectResults ==
    /\ coll.pc = "loop" => ENABLED CollectTurn
    /\ coll.pc # "none" => taken = coll.prior \o coll.batch
    /\ coll.pc = "returned" =>
          /\ Len(coll.batch) >= Len(coll.before)
          /\ SubSeq(coll.batch, 1, Len(coll.before)) = coll.before
    /\ \A id \in TaskIDs : NumReturned(id) <= execCalls[id]

\* a collect_results call, the first to find results, has returned two
\* results that were published before it, that of task 2 before that of
\* task 1
C32_Witness ==
    /\ coll.pc = "returned"
    /\ coll.prior = <<>>
    /\ Len(coll.before) = 2
    /\ coll.before[1].task_id = 2
    /\ coll.before[2].task_id = 1
    /\ execCalls[1] = 1
    /\ execCalls[2] = 1

(***************************************************************************)
(* Properties of the hub's registry of callbacks.                          *)
(***************************************************************************)
\* the entries of self.callbacks
Registry == Entries(reg.names, callbacks)

\* C33: the hub holds at most one callback per name; register_callback
\* leaves the name with the callback given and the other names as they
\* were; unregister_callback of a name that is there removes its entry and
\* returns true, of a name that is not there returns false and changes
\* nothing; a callback that was replaced or removed is not called.
C33_OneCallbackPerName ==
    /\ Len(reg.names) = Len(callbacks)
    /\ \A e \in Registry : \A g \in Registry : e[1] = g[1] => e = g
    /\ Cardinality(Registry) = Len(callbacks)
    /\ reg.op = "register" =>
          /\ <<reg.name, reg.f>> \in Registry
          /\ \A e \in reg.before : e[1] # reg.name => e \in Registry
          /\ \A e \in Registry : e[1] # reg.name => e \in reg.before
    /\ reg.op = "unregister" =>
          /\ reg.res <=> \E e \in reg.before : e[1] = reg.name
          /\ Registry = {e \in reg.before : e[1] # reg.name}
          /\ ~reg.res => Registry = reg.before
    /\ \A f \in Callbacks : f \notin SeqToSet(callbacks) => cbLog[f] = <<>>

\* start() has called the second callback registered under a name with an
\* event, and the first callback registered under that name with none
C33_Witness ==
    /\ reg.op = "register"
    /\ \E e \in reg.before : e[1] = reg.name /\ e[2] # reg.f /\ cbLog[e[2]] = <<>>
    /\ cbLog[reg.f] # <<>>

\* unregister_callback of a name that is not there has returned false
C33_WitnessAbsent ==
    /\ reg.op = "unregister"
    /\ ~reg.res
    /\ reg.before # {}

(***************************************************************************)
(* Properties of the registry of task handlers.                            *)
(***************************************************************************)
\* the positions of the handlers that accept the task of the call
Accepting == {i \in 1..Len(hreg.handlers) : can_handle(hreg.handlers[i], hreg.task)}

\* C35: execute_task runs the earliest registered handler that accepts the
\* task, and no other, and returns its Ok; when no registered handler
\* accepts the task it returns InvalidOperation and runs none.
C35_FirstMatchWins ==
    hreg.op = "execute_task" =>
        IF Accepting = {}
        THEN hreg.res = "InvalidOperation" /\ hreg.ran = <<>>
        ELSE /\ hreg.res = "Ok"
             /\ Len(hreg.ran) = 1
             /\ hreg.ran[1] \in Accepting
             /\ \A i \in Accepting : hreg.ran[1] <= i

\* a task that two handlers accept has been executed by the one registered
\* first
C35_Witness ==
    /\ hreg.op = "execute_task"
    /\ Cardinality(Accepting) >= 2
    /\ hreg.ran # <<>>
    /\ \E i \in Accepting : i > hreg.ran[1]

\* a registry with handlers has returned InvalidOperation
C35_WitnessNone ==
    /\ hreg.op = "execute_task"
    /\ hreg.handlers # <<>>
    /\ hreg.res = "InvalidOperation"

====
